---- MODULE Spec2Model ----
(***************************************************************************)
(* Verification model of the SD-OCT signal-processing core                 *)
(* (modules/signal_processing_hamasaki.py, modules/signal_processor.py)    *)
(* and of the measurement main loops that drive it (sd-oct.py,             *)
(* sd-oct+abs.py).                                                         *)
(*                                                                         *)
(* Numbers.  numpy float64 values are modelled as exact rationals extended *)
(* with nan, +inf and -inf ("Float" records below); rounding error and the *)
(* sign of zero are not modelled.  Python's None is the empty tuple and a  *)
(* bound value x is the one-element tuple <<x>>, so that "is None" is a    *)
(* comparison TLC can always evaluate.  Python indices are kept 0-based;   *)
(* a sequence s is read at Python index i as s[i+1].                       *)
(***************************************************************************)
EXTENDS Integers, Sequences, FiniteSets, TLC

VARIABLES
    op,       \* name of the operation that ran last
    args,     \* the arguments of that call
    out,      \* its outcome: returned value, raised exception, printed message
    vol,      \* the caller's C-scan volume (a 3d array)
    ref,      \* SignalProcessorHamasaki.__ref  (None or resampled reference)
    inc,      \* SignalProcessorHamasaki.__inc  (None or incidence spectrum)
    ref_fix,  \* SignalProcessor.__ref_fix      (None or resampled reference)
    host,     \* variables of the measurement main loop
    engine,   \* class of the engine object `sp` ("" while none is constructed)
    axes,     \* the arrays the engine object computed in its constructor
    tasks,    \* per position of a scan: to do, A-scan computed, or stored
    files,    \* entries of the data directory: base name -> kind of entry
    kb,       \* g_key, the queue q and the positions of the two processes
    hist      \* history of the calls made on the engine (read by no operation)

vars == <<op, args, out, vol, ref, inc, ref_fix, host, engine, axes, tasks, files, kb,
          hist>>

None == <<>>
Some(x) == <<x>>

\* no data directory, and no keyboard, in a specification that has neither
NoFiles == <<>>
NoKeyboard == <<>>

-----------------------------------------------------------------------------
(* Bounds of the model *)

\* largest extent of each of the two spatial axes of a C-scan volume
MaxDim == 2
\* largest number of depth samples of a C-scan volume
MaxDepth == 3
\* largest scanning distance y_max / largest depth value that is enumerated
MaxY == 3
\* largest number of samples of a spectrum given to the absorbance functions
MaxLen == 3
\* number of samples of the engine's wavelength axis (interp1d with
\* kind='cubic' needs at least 4)
NS == 4
\* the engine's `resolution`: number of samples of the depth axis
Res == 3
\* largest number of rows of a B-scan / of rows and columns of a C-scan grid
MaxRows == 2

-----------------------------------------------------------------------------
(* float64 arithmetic: exact rationals plus nan, +inf, -inf *)

Abs(x) == IF x < 0 THEN -x ELSE x

RECURSIVE GCD(_, _)
GCD(a, b) == IF b = 0 THEN a ELSE GCD(b, a % b)

\* the rational n/d (d # 0) in lowest terms with a positive denominator
Norm(n, d) ==
    LET g == GCD(Abs(n), Abs(d))
        s == IF d < 0 THEN -1 ELSE 1
    IN  [t |-> "fin", n |-> (s * n) \div g, d |-> (s * d) \div g]

F(i) == [t |-> "fin", n |-> i, d |-> 1]
NaN == [t |-> "nan", n |-> 0, d |-> 1]
PInf == [t |-> "pinf", n |-> 0, d |-> 1]
NInf == [t |-> "ninf", n |-> 0, d |-> 1]

IsInf(a) == a.t \in {"pinf", "ninf"}
IsNan(a) == a.t = "nan"
IsFin(a) == a.t = "fin"

\* -1, 0, 1 for a value that is not nan
Sign(a) ==
    CASE a.t = "pinf" -> 1
      [] a.t = "ninf" -> -1
      [] OTHER -> IF a.n > 0 THEN 1 ELSE IF a.n < 0 THEN -1 ELSE 0

Signed(s) == IF s > 0 THEN PInf ELSE NInf

FNeg(a) ==
    CASE a.t = "nan" -> NaN
      [] a.t = "pinf" -> NInf
      [] a.t = "ninf" -> PInf
      [] OTHER -> [t |-> "fin", n |-> -a.n, d |-> a.d]

FAdd(a, b) ==
    CASE IsNan(a) \/ IsNan(b) -> NaN
      [] IsInf(a) /\ IsInf(b) -> IF a.t = b.t THEN a ELSE NaN
      [] IsInf(a) -> a
      [] IsInf(b) -> b
      [] OTHER -> Norm(a.n * b.d + b.n * a.d, a.d * b.d)

FSub(a, b) == FAdd(a, FNeg(b))

FMul(a, b) ==
    CASE IsNan(a) \/ IsNan(b) -> NaN
      [] IsInf(a) \/ IsInf(b) ->
            IF Sign(a) * Sign(b) = 0 THEN NaN ELSE Signed(Sign(a) * Sign(b))
      [] OTHER -> Norm(a.n * b.n, a.d * b.d)

\* numpy true division with errstate(divide/invalid = 'ignore' or 'warn'):
\* x/0 is +-inf, 0/0 and inf/inf are nan, nothing is raised
FDiv(a, b) ==
    CASE IsNan(a) \/ IsNan(b) -> NaN
      [] IsInf(a) /\ IsInf(b) -> NaN
      [] IsInf(a) -> IF Sign(b) < 0 THEN FNeg(a) ELSE a
      [] IsInf(b) -> F(0)
      [] b.n = 0 -> IF a.n = 0 THEN NaN ELSE Signed(a.n)
      [] OTHER -> Norm(a.n * b.d, a.d * b.n)

FAbs(a) ==
    CASE a.t = "nan" -> NaN
      [] IsInf(a) -> PInf
      [] OTHER -> [t |-> "fin", n |-> Abs(a.n), d |-> a.d]

\* a < b; false whenever one side is nan
FLt(a, b) ==
    CASE IsNan(a) \/ IsNan(b) -> FALSE
      [] a.t = "ninf" -> b.t # "ninf"
      [] b.t = "pinf" -> a.t # "pinf"
      [] a.t = "pinf" \/ b.t = "ninf" -> FALSE
      [] OTHER -> a.n * b.d < b.n * a.d

FLe(a, b) == ~IsNan(a) /\ ~IsNan(b) /\ ~FLt(b, a)
FGe(a, b) == FLe(b, a)
FGt(a, b) == FLt(b, a)

\* np.amax / np.amin of a non-empty 1d array: nan if any element is nan
RECURSIVE AmaxFrom(_, _, _)
AmaxFrom(s, i, m) ==
    IF i > Len(s) THEN m
    ELSE AmaxFrom(s, i + 1, IF FGt(s[i], m) THEN s[i] ELSE m)

amax(s) == IF \E i \in 1..Len(s) : IsNan(s[i]) THEN NaN ELSE AmaxFrom(s, 2, s[1])

RECURSIVE AminFrom(_, _, _)
AminFrom(s, i, m) ==
    IF i > Len(s) THEN m
    ELSE AminFrom(s, i + 1, IF FLt(s[i], m) THEN s[i] ELSE m)

amin(s) == IF \E i \in 1..Len(s) : IsNan(s[i]) THEN NaN ELSE AminFrom(s, 2, s[1])

\* np.linspace(start, stop, num, endpoint=False)
linspace_endpoint_false(start, stop, num) ==
    [i \in 1..num |-> FAdd(start, FMul(F(i - 1), FDiv(FSub(stop, start), F(num))))]

\* np.linspace(start, stop, num): num = 1 gives [start]; otherwise
\* start + i*step with step = (stop-start)/(num-1) and the last sample set to stop
linspace(start, stop, num) ==
    [i \in 1..num |->
        IF num = 1 \/ i = 1 THEN start
        ELSE IF i = num THEN stop
        ELSE FAdd(start, FMul(F(i - 1), FDiv(FSub(stop, start), F(num - 1))))]

\* an integer array as a float array
Floats(s) == [i \in 1..Len(s) |-> F(s[i])]

-----------------------------------------------------------------------------
(* Outcomes of a call *)

Returned(value, printed) ==
    [raised |-> "", printed |-> printed, result |-> value, index |-> None]
ReturnedAt(value, printed, index) ==
    [raised |-> "", printed |-> printed, result |-> value, index |-> Some(index)]
Raised(exception, printed) ==
    [raised |-> exception, printed |-> printed, result |-> None, index |-> None]

-----------------------------------------------------------------------------
(* C-scan slicer: SignalProcessorHamasaki.analyze_cscan (static) *)

\* what the function prints
ErrNoYMax == "Error : y_max is required when generate (X or Y) vs Depth data."
ErrYRange == "Error:Target is not included in y-axis array. Returned y_axis[0]"
ErrNoDepth == "Error:depth is required when generate X vs Y data."
ErrDepthRange == "Error:Target is not included in depth array. Returned depth[0]."

\* the loop with > in the place of >=
first_index_strict(axis, target, index) ==
    LET hits == {i \in 0..(Len(axis) - 1) : FGt(axis[i + 1], F(target))}
    IN  IF hits = {} THEN index
        ELSE Some(CHOOSE i \in hits : \A j \in hits : i <= j)

\* for i in range(len(axis)): if axis[i]>=target: index=i; break
\* `index` is the binding of the local variable before the loop (None: unbound);
\* the value is its binding after the loop
\* a loop that leaves index 0 when no sample reaches the target
first_index_or_zero(axis, target, index) ==
    LET hits == {i \in 0..(Len(axis) - 1) : FGe(axis[i + 1], F(target))}
    IN  IF hits = {} THEN Some(0)
        ELSE Some(CHOOSE i \in hits : \A j \in hits : i <= j)

first_index(axis, target, index) ==
    LET hits == {i \in 0..(Len(axis) - 1) : FGe(axis[i + 1], F(target))}
    IN  IF hits = {} THEN index
        ELSE Some(CHOOSE i \in hits : \A j \in hits : i <= j)

\* result=cscan[index]
plane_xd(cscan, index) == cscan[index + 1]

\* result[i]=cscan[i][index] for every i
plane_yd_at_zero(cscan, index) ==
    [i \in 1..Len(cscan) |-> [d \in 1..Len(cscan[1][1]) |-> cscan[i][1][d]]]

plane_yd(cscan, index) ==
    [i \in 1..Len(cscan) |-> [d \in 1..Len(cscan[1][1]) |-> cscan[i][index + 1][d]]]

\* result[i][j]=cscan[i][j][index] for every i, j
plane_xy(cscan, index) ==
    [i \in 1..Len(cscan) |-> [j \in 1..Len(cscan[1]) |-> cscan[i][j][index + 1]]]

\* the branch mode == 'xd' or mode == 'yd' with y_max given.  When the target
\* is out of range only `index` is bound: `y_axis` is read unbound by the loop
\* header.  When no sample reaches the target `index` is read unbound.
slice_y(cscan, target, mode, y_max) ==
    LET out_of_range == y_max < target \/ 0 > target
        printed == IF out_of_range THEN ErrYRange ELSE ""
        index0 == IF out_of_range THEN Some(0) ELSE None
        y_axis == IF out_of_range THEN None
                  ELSE IF mode = "xd" THEN Some(linspace(F(0), F(y_max), Len(cscan)))
                  ELSE Some(linspace(F(0), F(y_max), Len(cscan[1])))
    IN  IF y_axis = None THEN Raised("UnboundLocalError: y_axis", printed)
        ELSE LET index == first_index(y_axis[1], target, index0)
             IN  IF index = None THEN Raised("UnboundLocalError: index", printed)
                 ELSE IF mode = "xd"
                      THEN ReturnedAt(Some(plane_xd(cscan, index[1])), printed, index[1])
                      ELSE ReturnedAt(Some(plane_yd(cscan, index[1])), printed, index[1])

\* lines 351-357: the binding of `index` after the range test and the loop
xy_index_without_fallback(depth, target) ==
    first_index(Floats(depth), target, None)

xy_index(depth, target) ==
    LET out_of_range == FLt(amax(Floats(depth)), F(target))
                        \/ FGt(amin(Floats(depth)), F(target))
    IN  first_index(Floats(depth), target, IF out_of_range THEN Some(0) ELSE None)

\* the branch mode == 'xy' with depth given
slice_xy(cscan, target, depth) ==
    LET out_of_range == FLt(amax(Floats(depth)), F(target))
                        \/ FGt(amin(Floats(depth)), F(target))
        printed == IF out_of_range THEN ErrDepthRange ELSE ""
        index == xy_index(depth, target)
    IN  IF index = None THEN Raised("UnboundLocalError: index", printed)
        ELSE ReturnedAt(Some(plane_xy(cscan, index[1])), printed, index[1])

\* y_max and depth are None or Some(value)
\* the comparisons made without the tests for None
analyze_cscan_unchecked(cscan, target, mode, y_max, depth) ==
    IF mode = "xd" \/ mode = "yd"
    THEN IF y_max = None THEN Raised("TypeError", "")
         ELSE slice_y(cscan, target, mode, y_max[1])
    ELSE IF mode = "xy"
    THEN IF depth = None THEN Raised("TypeError", "")
         ELSE slice_xy(cscan, target, depth[1])
    ELSE Returned(None, "")

analyze_cscan(cscan, target, mode, y_max, depth) ==
    IF mode = "xd" \/ mode = "yd"
    THEN IF y_max = None THEN Returned(None, ErrNoYMax)
         ELSE slice_y(cscan, target, mode, y_max[1])
    ELSE IF mode = "xy"
    THEN IF depth = None THEN Returned(None, ErrNoDepth)
         ELSE slice_xy(cscan, target, depth[1])
    ELSE Returned(None, "")

-----------------------------------------------------------------------------
(* Inputs of the slicer *)

\* a volume of shape [a, b, d] whose entry at (i, j, k) (0-based) is the
\* number 100*i + 10*j + k, so that every entry names its own position
Volume(a, b, d) ==
    [i \in 1..a |-> [j \in 1..b |-> [k \in 1..d |-> 100 * (i - 1) + 10 * (j - 1) + (k - 1)]]]

Volumes == {Volume(a, b, d) : a \in 1..MaxDim, b \in 1..MaxDim, d \in 1..MaxDepth}

Modes == {"xd", "yd", "xy", "zz"}
Targets == (-1)..(MaxY + 1)
YMaxes == {Some(y) : y \in 0..MaxY}
\* depth arrays with one value per depth sample of the volume, in any order
DepthsOf(cscan) == {Some(s) : s \in [1..Len(cscan[1][1]) -> 0..MaxY]}

\* the argument lists that are enumerated: the parameter a mode does not read
\* is left at its default None, the one it reads is given or left out
SlicerCalls(cscan) ==
    {[cscan |-> cscan, target |-> t, mode |-> m, y_max |-> y, depth |-> None] :
        t \in Targets, m \in {"xd", "yd"}, y \in YMaxes \cup {None}}
    \cup
    {[cscan |-> cscan, target |-> t, mode |-> "xy", y_max |-> None, depth |-> d] :
        t \in Targets, d \in DepthsOf(cscan) \cup {None}}
    \cup
    {[cscan |-> cscan, target |-> t, mode |-> "zz", y_max |-> None, depth |-> None] :
        t \in Targets}

NoHost ==
    [script |-> "", stage_s_flag |-> FALSE, key |-> "", ref |-> None, inc |-> None,
     raised |-> "", stage |-> <<>>]
\* first: the reference argument of the first generate_* call, while
\*   set_reference has never been called; set_ref / set_inc: the argument of
\*   the latest explicit set_reference / set_incidence call
NoHistory == [first |-> None, set_ref |-> None, set_inc |-> None]
NoOutcome == Returned(None, "")

\* no call is in progress and no outcome is held
Idle == op = "idle"

InitSlicer ==
    /\ op = "idle"
    /\ args = <<>>
    /\ out = NoOutcome
    /\ vol \in Volumes
    /\ ref = None
    /\ inc = None
    /\ ref_fix = None
    /\ host = NoHost
    /\ engine = ""
    /\ axes = None
    /\ tasks = <<>>
    /\ hist = NoHistory
    /\ files = NoFiles
    /\ kb = NoKeyboard

\* the caller is done with the outcome of the last call
Discard ==
    /\ ~Idle
    /\ op' = "idle"
    /\ args' = <<>>
    /\ out' = NoOutcome
    /\ UNCHANGED <<vol, ref, inc, ref_fix, host, engine, files, kb, axes, tasks, hist>>

\* the caller obtains another volume
LoadVolume ==
    /\ Idle
    /\ vol' \in Volumes
    /\ UNCHANGED <<op, args, out, ref, inc, ref_fix, host, engine, files, kb, axes, tasks, hist>>

\* one call analyze_cscan(vol, target, mode, y_max, depth); the function
\* assigns to no element of cscan
AnalyzeCscan ==
    /\ Idle
    /\ \E a \in SlicerCalls(vol) :
          /\ args' = a
          /\ out' = analyze_cscan(a.cscan, a.target, a.mode, a.y_max, a.depth)
    /\ op' = "analyze_cscan"
    /\ UNCHANGED <<vol, ref, inc, ref_fix, host, engine, files, kb, axes, tasks, hist>>

NextSlicer == LoadVolume \/ AnalyzeCscan \/ Discard

SpecSlicer == InitSlicer /\ [][NextSlicer]_vars

-----------------------------------------------------------------------------
(* Claims about the slicer, checked under SpecSlicer *)

IsSlice == op = "analyze_cscan"
ShapeA == Len(args.cscan)
ShapeB == Len(args.cscan[1])
ShapeD == Len(args.cscan[1][1])
GivenYMax == args.mode \in {"xd", "yd"} /\ args.y_max # None
GivenDepth == args.mode = "xy" /\ args.depth # None
\* number of samples of the uniform axis of modes 'xd' / 'yd'
AxisSamples == IF args.mode = "xd" THEN ShapeA ELSE ShapeB
\* sample k (0-based) of the uniform axis from 0 to y_max is >= target
UniformSampleReaches(k) ==
    IF AxisSamples = 1 THEN 0 >= args.target
    ELSE k * args.y_max[1] >= args.target * (AxisSamples - 1)
DepthSampleReaches(k) == args.depth[1][k + 1] >= args.target

\* C1: with a target inside the covered range the call selects the smallest
\* index whose axis value is >= target: on the depth axis in mode 'xy' (target
\* in [min(depth), max(depth)]), on the uniform axis from 0 to y_max in modes
\* 'xd' and 'yd' (0 <= target <= y_max).
C1_NearestCeiling ==
    IsSlice =>
        /\ ( /\ GivenDepth
             /\ \E i \in 1..ShapeD : args.depth[1][i] <= args.target
             /\ \E i \in 1..ShapeD : args.depth[1][i] >= args.target )
           => /\ out.raised = ""
              /\ out.index # None
              /\ DepthSampleReaches(out.index[1])
              /\ \A j \in 0..(out.index[1] - 1) : ~DepthSampleReaches(j)
        /\ (GivenYMax /\ 0 <= args.target /\ args.target <= args.y_max[1])
           => /\ out.raised = ""
              /\ out.index # None
              /\ UniformSampleReaches(out.index[1])
              /\ \A j \in 0..(out.index[1] - 1) : ~UniformSampleReaches(j)

\* C1 restricted to the inputs on which the code selects an index: mode 'xy',
\* and modes 'xd' / 'yd' with an axis of two or more samples or target = 0
C1_NearestCeilingWhereSelected ==
    (IsSlice /\ out.index # None /\ out.printed = "") =>
        IF args.mode = "xy"
        THEN /\ DepthSampleReaches(out.index[1])
             /\ \A j \in 0..(out.index[1] - 1) : ~DepthSampleReaches(j)
        ELSE /\ UniformSampleReaches(out.index[1])
             /\ \A j \in 0..(out.index[1] - 1) : ~UniformSampleReaches(j)

\* C2: modes 'xd' / 'yd' with y_max given and a target outside [0, y_max]:
\* the call does not raise, reports the out-of-range condition and returns
\* the plane at index 0 of the fixed axis.
C2_YOutOfRangeFallsBack ==
    (IsSlice /\ GivenYMax /\ (args.target < 0 \/ args.target > args.y_max[1]))
    => /\ out.raised = ""
       /\ out.printed = ErrYRange
       /\ out.result # None
       /\ IF args.mode = "xd"
          THEN out.result[1] = args.cscan[1]
          ELSE out.result[1] = [i \in 1..ShapeA |-> args.cscan[i][1]]

DepthOutOfRange ==
    \/ \A i \in 1..ShapeD : args.depth[1][i] > args.target
    \/ \A i \in 1..ShapeD : args.depth[1][i] < args.target

\* C3: mode 'xy' with a depth axis and a target below min(depth) or above
\* max(depth): the call does not raise and returns the plane of depth index 0.
C3_DepthOutOfRangeIndexZero ==
    (IsSlice /\ GivenDepth /\ DepthOutOfRange)
    => /\ out.raised = ""
       /\ out.result # None
       /\ out.result[1] =
             [i \in 1..ShapeA |-> [j \in 1..ShapeB |-> args.cscan[i][j][1]]]

C3_Witness ==
    /\ IsSlice /\ GivenDepth
    /\ ShapeD >= 2
    /\ \A i \in 1..ShapeD : args.depth[1][i] < args.target
    /\ out.raised = ""
    /\ out.index = Some(0)

\* C4: for a volume of shape [A, B, D] and selected index k the result is
\* the B x D plane cscan[k][j][d] in mode 'xd', the A x D plane cscan[i][k][d]
\* in mode 'yd', the A x B plane cscan[i][j][k] in mode 'xy'; the volume the
\* caller passed is unchanged after the call.
C4_PlaneOfMode ==
    IsSlice =>
        /\ vol = args.cscan
        /\ out.index # None =>
             LET k == out.index[1] + 1
                 r == out.result[1]
                 c == args.cscan
             IN  CASE args.mode = "xd" ->
                        /\ Len(r) = ShapeB
                        /\ \A j \in 1..ShapeB :
                              /\ Len(r[j]) = ShapeD
                              /\ \A d \in 1..ShapeD : r[j][d] = c[k][j][d]
                   [] args.mode = "yd" ->
                        /\ Len(r) = ShapeA
                        /\ \A i \in 1..ShapeA :
                              /\ Len(r[i]) = ShapeD
                              /\ \A d \in 1..ShapeD : r[i][d] = c[i][k][d]
                   [] OTHER ->
                        /\ Len(r) = ShapeA
                        /\ \A i \in 1..ShapeA :
                              /\ Len(r[i]) = ShapeB
                              /\ \A j \in 1..ShapeB : r[i][j] = c[i][j][k]

C4_Witness ==
    /\ IsSlice
    /\ args.mode = "yd"
    /\ ShapeA >= 2
    /\ out.index # None
    /\ out.index[1] >= 1
    /\ out.result[1][2][1] = 110

\* the parameter the mode reads was not given
MissingParameter ==
    \/ args.mode \in {"xd", "yd"} /\ args.y_max = None
    \/ args.mode = "xy" /\ args.depth = None

\* C25: analyze_cscan called in mode 'xd' or 'yd' without y_max, in mode
\* 'xy' without depth, or with a mode that is none of the three, does not
\* raise, returns None and leaves the volume as it was.
C25_NothingToSliceReturnsNone ==
    (IsSlice /\ (MissingParameter \/ args.mode \notin {"xd", "yd", "xy"})) =>
        /\ out.raised = ""
        /\ out.result = None
        /\ out.index = None
        /\ vol = args.cscan
        /\ out.printed = (IF args.mode \in {"xd", "yd"} THEN ErrNoYMax
                          ELSE IF args.mode = "xy" THEN ErrNoDepth ELSE "")

\* a call in mode 'yd' on a volume of more than one sample with no y_max
C25_Witness ==
    /\ IsSlice
    /\ args.mode = "yd"
    /\ args.y_max = None
    /\ ShapeA >= 2 /\ ShapeD >= 2
    /\ out.result = None
    /\ out.printed = ErrNoYMax

-----------------------------------------------------------------------------
(* Absorbance / reflectance: module-level calculate_absorbance and         *)
(* calculate_reflectance of signal_processing_hamasaki.py                  *)

\* the exponent k of a power of ten 10^k, k >= 0
RECURSIVE Exp10(_)
Exp10(x) == IF x < 10 THEN 0 ELSE 1 + Exp10(x \div 10)

\* np.log10 with errstate(divide='ignore', invalid='ignore'): log10(0) is
\* -inf, log10 of a negative number or of -inf is nan.  Finite positive
\* arguments are ratios of powers of ten (the intensities that are enumerated),
\* whose logarithm is the difference of the exponents.
log10(a) ==
    CASE a.t = "nan" \/ a.t = "ninf" -> NaN
      [] a.t = "pinf" -> PInf
      [] a.n < 0 -> NaN
      [] a.n = 0 -> NInf
      [] OTHER -> F(Exp10(a.n) - Exp10(a.d))

\* for i in range(len(a)): if np.isinf(a[i]): a[i]=np.nan
replace_positive_inf(a) == [i \in 1..Len(a) |-> IF a[i].t = "pinf" THEN NaN ELSE a[i]]

replace_inf(a) == [i \in 1..Len(a) |-> IF IsInf(a[i]) THEN NaN ELSE a[i]]

\* absorbance=np.log10(reflection/incidence)*(-1), then the replacement loop
calculate_absorbance(reflection, incidence) ==
    replace_inf([i \in 1..Len(reflection) |->
        FMul(log10(FDiv(F(reflection[i]), F(incidence[i]))), F(-1))])

\* reflectance=reflection/incidence, then the replacement loop
calculate_reflectance(reflection, incidence) ==
    replace_inf([i \in 1..Len(reflection) |->
        FDiv(F(reflection[i]), F(incidence[i]))])

\* intensities that are enumerated: zero, powers of ten, a negative reading
Intensities == {-1, 0, 1, 10}
SpectraOfLen(n) == [1..n -> Intensities]
SpectrumPairs(n) ==
    {[reflection |-> r, incidence |-> i] : r \in SpectraOfLen(n), i \in SpectraOfLen(n)}

InitAbsorbance ==
    /\ op = "idle"
    /\ args = <<>>
    /\ out = NoOutcome
    /\ vol = Volume(1, 1, 1)
    /\ ref = None
    /\ inc = None
    /\ ref_fix = None
    /\ host = NoHost
    /\ engine = ""
    /\ axes = None
    /\ tasks = <<>>
    /\ hist = NoHistory
    /\ files = NoFiles
    /\ kb = NoKeyboard

CalculateAbsorbance ==
    /\ Idle
    /\ \E n \in 1..MaxLen : \E a \in SpectrumPairs(n) :
          /\ args' = a
          /\ out' = Returned(Some(calculate_absorbance(a.reflection, a.incidence)), "")
    /\ op' = "calculate_absorbance"
    /\ UNCHANGED <<vol, ref, inc, ref_fix, host, engine, files, kb, axes, tasks, hist>>

CalculateReflectance ==
    /\ Idle
    /\ \E n \in 1..MaxLen : \E a \in SpectrumPairs(n) :
          /\ args' = a
          /\ out' = Returned(Some(calculate_reflectance(a.reflection, a.incidence)), "")
    /\ op' = "calculate_reflectance"
    /\ UNCHANGED <<vol, ref, inc, ref_fix, host, engine, files, kb, axes, tasks, hist>>

NextAbsorbance == CalculateAbsorbance \/ CalculateReflectance \/ Discard

SpecAbsorbance == InitAbsorbance /\ [][NextAbsorbance]_vars

-----------------------------------------------------------------------------
(* Claims about the absorbance functions, checked under SpecAbsorbance *)

RECURSIVE Pow10(_)
Pow10(k) == IF k = 0 THEN 1 ELSE 10 * Pow10(k - 1)

\* the float a is the integer v
IsInt(a, v) == a.t = "fin" /\ a.n = v * a.d

\* a is -log10(r/c) for integers r, c of the same sign: 10^a = c/r
IsAbsorbanceOf(a, r, c) ==
    /\ a.t = "fin" /\ a.d = 1
    /\ IF a.n >= 0 THEN r * Pow10(a.n) = c ELSE r = c * Pow10(-a.n)

\* C5: no element of the result of calculate_absorbance or of
\* calculate_reflectance is infinite; where reflection/incidence resp.
\* -log10(reflection/incidence) is +inf or -inf (a zero in either spectrum) the
\* element is nan, the other elements are the plain quotient resp. logarithm
\* (nan where that is undefined: 0/0, logarithm of a negative quotient).
C5_NoInfinity ==
    (op \in {"calculate_absorbance", "calculate_reflectance"}) =>
        LET res == out.result[1]
            r == args.reflection
            c == args.incidence
        IN  /\ Len(res) = Len(r)
            /\ \A i \in 1..Len(r) :
                  /\ ~IsInf(res[i])
                  /\ IF op = "calculate_reflectance"
                     THEN IF c[i] = 0 THEN IsNan(res[i])
                          ELSE res[i].t = "fin" /\ res[i].n * c[i] = r[i] * res[i].d
                     ELSE IF r[i] * c[i] <= 0 THEN IsNan(res[i])
                          ELSE IsAbsorbanceOf(res[i], r[i], c[i])

\* incidence [1,0,1], reflection [1,1,1] gives [0, nan, 0]
C5_Witness ==
    /\ op = "calculate_absorbance"
    /\ args.incidence = <<1, 0, 1>>
    /\ args.reflection = <<1, 1, 1>>
    /\ out.result[1] = <<F(0), NaN, F(0)>>

-----------------------------------------------------------------------------
(* Engine configuration.                                                   *)
(*                                                                         *)
(* Units are chosen so that the unit factors of the constructor (1e9, 1e6, *)
(* 1e-3, 1e12 and 2*n) are 1 and the speed of light is 12.  The wavelength *)
(* axis is wl[k] = c/(NS+1-k), strictly increasing, so that the optical    *)
(* frequencies c/wl are the integers NS, ..., 1; with signal_length = 1    *)
(* every sample of the fixed frequency axis is then one of them, and a     *)
(* spline through (freq, spectra) takes there the value of the spectrum.   *)
(* With depth_max = resolution-1 the products time*freq are multiples of   *)
(* 1/12 turn, where the sine is 0, +-1/2, +-1 or +-sqrt(3)/2 (kept to      *)
(* three decimals).                                                        *)

c == 12
signal_length == 1
wavelength == [k \in 1..NS |-> FDiv(F(c), F(NS + 1 - k))]
depth_max == F(Res - 1)

\* np.sin(2*np.pi*x) for x a multiple of 1/12
sin2pi(x) ==
    LET m == ((12 * x.n) \div x.d) % 12
        thousandths == <<0, 500, 866, 1000, 866, 500, 0, -500, -866, -1000, -866, -500>>
    IN  Norm(thousandths[m + 1], 1000)

\* SignalProcessorHamasaki.__init__: the axes and the sine basis
self_depth == linspace(F(0), depth_max, Res)
self_time == [d \in 1..Res |-> FDiv(self_depth[d], F(c))]
self_freq == [k \in 1..NS |-> FDiv(F(c), wavelength[k])]
self_freq_fixed == linspace(amin(self_freq), amax(self_freq), NS * signal_length)
\* the rows of the basis in the opposite order
prepare_sinusoid_reversed(freq_fixed) ==
    [i \in 1..Len(freq_fixed) |->
        [d \in 1..Len(self_time) |->
            sin2pi(FMul(self_time[d], freq_fixed[Len(freq_fixed) + 1 - i]))]]

prepare_sinusoid(freq_fixed) ==
    [i \in 1..Len(freq_fixed) |->
        [d \in 1..Len(self_time) |-> sin2pi(FMul(self_time[d], freq_fixed[i]))]]
self_freq_dataset == prepare_sinusoid(self_freq_fixed)

\* np.sin(2*np.pi*x): the table value at a multiple of 1/12 turn, and a term
\* elsewhere
sin_of(x) ==
    IF (12 * x.n) % x.d = 0 THEN sin2pi(x) ELSE [t |-> "sin2pi", n |-> x.n, d |-> x.d]

\* SignalProcessorHamasaki(wl, n, dmax, resolution): the fields of the new
\* object; no argument is checked
__init__(wl, dmax, resolution) ==
    LET depth == linspace(F(0), dmax, resolution)
        time == [d \in 1..Len(depth) |-> FDiv(depth[d], F(c))]
        freq == [k \in 1..Len(wl) |-> FDiv(F(c), wl[k])]
        freq_fixed == linspace(amin(freq), amax(freq), Len(wl) * signal_length)
    IN  [wl |-> wl, res |-> resolution, depth |-> depth, time |-> time,
         freq |-> freq, freq_fixed |-> freq_fixed,
         freq_dataset |-> [i \in 1..Len(freq_fixed) |->
                              [d \in 1..Len(time) |-> sin_of(FMul(time[d], freq_fixed[i]))]],
         ref |-> None, inc |-> None]

\* interpolate.interp1d(x, y, kind='cubic') refuses arrays of different lengths
interp1d_error(x, y) ==
    IF Len(x) # Len(y)
    THEN "ValueError: x and y arrays must be equal in length along interpolation axis."
    ELSE ""

\* interp1d(self.__freq, spectra, kind='cubic')(self.__freq_fixed): the value
\* of the spline at a sample of the fixed axis that is a knot is the spectrum
\* at that knot
resample(spectra) ==
    [m \in 1..Len(self_freq_fixed) |->
        F(spectra[CHOOSE k \in 1..NS : self_freq[k] = self_freq_fixed[m]])]

\* remove_background without the division by the reference's peak
remove_background_unscaled(self_ref, spectra) ==
    LET scale == amax(spectra)
    IN  [i \in 1..Len(spectra) |-> FSub(spectra[i], FMul(self_ref[i], scale))]

\* spectra-np.multiply(self.__ref,(np.amax(spectra)/np.amax(self.__ref)))
remove_background(self_ref, spectra) ==
    LET scale == FDiv(amax(spectra), amax(self_ref))
    IN  [i \in 1..Len(spectra) |-> FSub(spectra[i], FMul(self_ref[i], scale))]

\* for i in range(len(spectra)): result+=spectra[i]*self.__freq_dataset[i]
RECURSIVE sine_sum(_, _, _)
sine_sum(spectra, i, result) ==
    IF i > Len(spectra) THEN result
    ELSE sine_sum(spectra, i + 1,
            [d \in 1..Len(result) |->
                FAdd(result[d], FMul(spectra[i], self_freq_dataset[i][d]))])

\* the normalised sums with their signs
apply_inverse_ft_signed(spectra) ==
    LET result == sine_sum(spectra, 1, [d \in 1..Len(self_depth) |-> F(0)])
        peak == amax(result)
    IN  [d \in 1..Len(result) |-> FDiv(result[d], peak)]

\* result/=np.amax(result); return abs(result)
apply_inverse_ft(spectra) ==
    LET result == sine_sum(spectra, 1, [d \in 1..Len(self_depth) |-> F(0)])
        peak == amax(result)
    IN  [d \in 1..Len(result) |-> FAbs(FDiv(result[d], peak))]

\* signal_processor.py, SignalProcessorHamasaki.apply_inverse_ft: the sine of
\* every frequency is evaluated inside the loop, the first term starts the
\* sum; one term per sample of the fixed frequency axis
RECURSIVE loop_sine_sum(_, _, _)
loop_sine_sum(spectra, i, result) ==
    IF i > Len(self_freq_fixed) THEN result
    ELSE LET term == [d \in 1..Len(self_time) |->
                        FMul(spectra[i], sin2pi(FMul(self_time[d], self_freq_fixed[i])))]
         IN  loop_sine_sum(spectra, i + 1,
                 IF i = 1 THEN term
                 ELSE [d \in 1..Len(result) |-> FAdd(result[d], term[d])])

\* result/=np.amax(result); return abs(result)
loop_apply_inverse_ft(spectra) ==
    LET result == loop_sine_sum(spectra, 1, <<>>)
        peak == amax(result)
    IN  [d \in 1..Len(result) |-> FAbs(FDiv(result[d], peak))]

\* result=self.__depth in its place: the sums pile up in the depth axis
apply_inverse_ft_in_place(ax, spectra) ==
    [ax EXCEPT !.depth = sine_sum(spectra, 1, ax.depth)]

\* apply_inverse_ft and the arrays of the engine: result=np.zeros_like(
\* self.__depth) is a new array and so is spectra[i]*self.__freq_dataset[i];
\* the in-place += and /= act on result alone
apply_inverse_ft_axes(ax, spectra) == ax

\* the arrays after the A-scans of spectra[i], spectra[i+1], ... against
\* the cached reference self_ref
RECURSIVE axes_after(_, _, _, _)
axes_after(ax, self_ref, spectra, i) ==
    IF i > Len(spectra) THEN ax
    ELSE axes_after(apply_inverse_ft_axes(ax, remove_background(self_ref,
                                                  resample(spectra[i]))),
                    self_ref, spectra, i + 1)

\* generate_ascan on an engine whose cached reference is self_ref (None or
\* Some(array)): the cached reference after the call and the A-scan
generate_ascan_always_set(self_ref, interference, reference) ==
    LET e1 == interp1d_error(self_freq, reference)
        r == IF e1 = "" THEN Some(resample(reference)) ELSE self_ref
        e2 == IF e1 # "" THEN e1 ELSE interp1d_error(self_freq, interference)
    IN  IF e2 # "" THEN [ref |-> r, ascan |-> <<>>, raised |-> e2]
        ELSE [ref |-> r, raised |-> "",
              ascan |-> apply_inverse_ft(remove_background(r[1], resample(interference)))]

\* if self.__ref is None: self.set_reference(reference); then the three
\* steps on the interference; a resample that raises ends the call
generate_ascan(self_ref, interference, reference) ==
    LET e1 == IF self_ref = None THEN interp1d_error(self_freq, reference) ELSE ""
        r == IF self_ref = None /\ e1 = "" THEN Some(resample(reference)) ELSE self_ref
        e2 == IF e1 # "" THEN e1 ELSE interp1d_error(self_freq, interference)
    IN  IF e2 # "" THEN [ref |-> r, ascan |-> <<>>, raised |-> e2]
        ELSE [ref |-> r, raised |-> "",
              ascan |-> apply_inverse_ft(remove_background(r[1], resample(interference)))]

\* bscan=np.zeros((len(interference),res)); for i: bscan[i]=generate_ascan(...)
\* rows i..len-1 on top of the rows done so far
RECURSIVE bscan_rows(_, _, _, _, _)
bscan_rows(self_ref, interference, reference, i, bscan) ==
    IF i > Len(interference) THEN [ref |-> self_ref, bscan |-> bscan]
    ELSE LET a == generate_ascan(self_ref, interference[i], reference)
         IN  bscan_rows(a.ref, interference, reference, i + 1,
                        [bscan EXCEPT ![i] = a.ascan])

generate_bscan_first_row(self_ref, interference, reference) ==
    bscan_rows(self_ref, [i \in 1..Len(interference) |-> interference[1]], reference, 1,
               [i \in 1..Len(interference) |-> [d \in 1..Res |-> F(0)]])

generate_bscan(self_ref, interference, reference) ==
    bscan_rows(self_ref, interference, reference, 1,
               [i \in 1..Len(interference) |-> [d \in 1..Res |-> F(0)]])

\* for i in range(len(interference)): for j in range(len(interference[i])):
\*     cscan[i][j]=self.generate_ascan(interference[i][j],reference)
\* cells from (i, j) on; cscan has len(interference[0]) columns in every row
RECURSIVE cscan_cells(_, _, _, _, _, _)
cscan_cells(self_ref, interference, reference, i, j, cscan) ==
    IF i > Len(interference) THEN [raised |-> "", ref |-> self_ref, cscan |-> cscan]
    ELSE IF j > Len(interference[i])
    THEN cscan_cells(self_ref, interference, reference, i + 1, 1, cscan)
    ELSE IF j > Len(cscan[i])
    THEN [raised |-> "IndexError: index out of bounds for axis 0",
          ref |-> generate_ascan(self_ref, interference[i][j], reference).ref,
          cscan |-> cscan]
    ELSE LET a == generate_ascan(self_ref, interference[i][j], reference)
         IN  cscan_cells(a.ref, interference, reference, i, j + 1,
                         [cscan EXCEPT ![i][j] = a.ascan])

\* the spectra generate_cscan hands to generate_ascan, in order: the loops
\* end at the first position past the width of row 0, whose A-scan is
\* computed before the assignment raises
RECURSIVE cscan_order(_, _, _)
cscan_order(interference, i, done) ==
    IF i > Len(interference) THEN done
    ELSE IF Len(interference[i]) > Len(interference[1])
    THEN done \o SubSeq(interference[i], 1, Len(interference[1]) + 1)
    ELSE cscan_order(interference, i + 1, done \o interference[i])

generate_cscan_first_cell(self_ref, interference, reference) ==
    cscan_cells(self_ref,
        [i \in 1..Len(interference) |->
            [j \in 1..Len(interference[i]) |-> interference[1][1]]],
        reference, 1, 1,
        [i \in 1..Len(interference) |->
            [j \in 1..Len(interference[1]) |-> [d \in 1..Res |-> F(0)]]])

generate_cscan(self_ref, interference, reference) ==
    cscan_cells(self_ref, interference, reference, 1, 1,
        [i \in 1..Len(interference) |->
            [j \in 1..Len(interference[1]) |-> [d \in 1..Res |-> F(0)]]])

\* set_incidence that starts both data containers afresh
set_incidence_resetting(self, incidence) == [ref |-> None, inc |-> Some(incidence)]

\* set_incidence on an engine whose caches are self.ref and self.inc:
\* self.__inc=incidence
set_incidence(self, incidence) == [self EXCEPT !.inc = Some(incidence)]

\* the method SignalProcessorHamasaki.calculate_absorbance(self, reflection,
\* incidence) called with the positional arguments argv: both are required
self_calculate_absorbance_always_set(self_inc, argv) ==
    [raised |-> "", inc |-> Some(argv[2]),
     absorbance |-> Some(calculate_absorbance(argv[1], argv[2]))]

self_calculate_absorbance(self_inc, argv) ==
    IF Len(argv) # 2
    THEN [raised |-> "TypeError: calculate_absorbance() missing 1 required positional argument: 'incidence'",
          inc |-> self_inc, absorbance |-> None]
    ELSE LET i == IF self_inc = None THEN Some(argv[2]) ELSE self_inc
         IN  [raised |-> "", inc |-> i,
              absorbance |-> Some(calculate_absorbance(argv[1], i[1]))]

\* for i in range(len(reflection)):
\*     absorbance_2d[i]=self.calculate_absorbance(reflection[i])
RECURSIVE absorbance_rows(_, _, _, _)
absorbance_rows(self_inc, reflection, i, absorbance_2d) ==
    IF i > Len(reflection)
    THEN Returned(Some(absorbance_2d), "Generating absorbance distribution map(2D)...")
    ELSE LET a == self_calculate_absorbance(self_inc, <<reflection[i]>>)
         IN  IF a.raised # ""
             THEN Raised(a.raised, "Generating absorbance distribution map(2D)...")
             ELSE absorbance_rows(a.inc, reflection, i + 1,
                                  [absorbance_2d EXCEPT ![i] = a.absorbance[1]])

\* the method SignalProcessorHamasaki.calculate_absorbance_2d(self, reflection)
self_calculate_absorbance_2d(self_inc, reflection) ==
    IF self_inc = None
    THEN Raised("TypeError: object of type 'NoneType' has no len()", "")
    ELSE absorbance_rows(self_inc, reflection, 1,
            [i \in 1..Len(reflection) |-> [k \in 1..Len(self_inc[1]) |-> F(0)]])

\* find_index(wavelength, wl_range): each loop binds its variable at the first
\* sample >= the bound; `return start, end` reads both
find_index(wl, wl_range) ==
    LET start == first_index(wl, wl_range[1], None)
        end == first_index(wl, wl_range[2], None)
    IN  IF start = None THEN Raised("UnboundLocalError: start", "")
        ELSE IF end = None THEN Raised("UnboundLocalError: end", "")
        ELSE Returned(Some(<<start[1], end[1]>>), "")

-----------------------------------------------------------------------------
(* SignalProcessor (signal_processor.py): the engine with Kaiser window    *)
(* and numpy IFFT, for 1d spectra                                          *)

\* SignalProcessor.__init__
sp_ns == Len(wavelength)
sp_wl_fix ==
    LET lo == amin(wavelength)
        hi == amax(wavelength)
        inv(x) == FDiv(F(1), x)
        s(i) == FMul(FDiv(F(sp_ns - 1), FSub(hi, lo)),
                     FSub(inv(FAdd(inv(hi),
                                   FMul(FDiv(F(i), F(sp_ns - 1)), FSub(inv(lo), inv(hi))))),
                          lo))
    IN  [i \in 1..sp_ns |->
            FAdd(lo, FDiv(FMul(s(i - 1), FSub(hi, lo)), F(sp_ns - 1)))]
sp_nf == sp_ns * 2
\* freq = c/(wl_fix*1e-9*n); fs = 2*freq.max(); t = nf/fs;
\* depth = np.linspace(0, c*t/2, ns)
sp_depth ==
    LET freq == [i \in 1..sp_ns |-> FDiv(F(c), sp_wl_fix[i])]
        fs == FMul(F(2), amax(freq))
        t == FDiv(F(sp_nf), fs)
    IN  linspace(F(0), FDiv(FMul(F(c), t), F(2)), sp_ns)

\* normalize(array, axis=0) of a 1d array: (array-min)/(max-min)
sp_normalize(array) ==
    LET lo == amin(array)
        hi == amax(array)
    IN  [i \in 1..Len(array) |-> FDiv(FSub(array[i], lo), FSub(hi, lo))]

\* interp1d(self.__wl, spectra, kind)(self.__wl_fix), then normalize; every
\* sample of the fixed wavelength axis is a knot of the spline
sp_resample(spectra) ==
    sp_normalize([i \in 1..sp_ns |->
        F(spectra[CHOOSE k \in 1..sp_ns : wavelength[k] = sp_wl_fix[i]])])

\* spectra - self.__ref_fix
sp_remove_background(self_ref_fix, spectra) ==
    [i \in 1..Len(spectra) |-> FSub(spectra[i], self_ref_fix[i])]

\* spectra*self.__window: the Kaiser weights are Bessel-function values and
\* are kept as terms
sp_apply_window(spectra) ==
    [i \in 1..Len(spectra) |-> [window |-> i - 1, times |-> spectra[i]]]

\* np.abs(np.fft.ifft(spectra, n, axis=0)): the input is cropped or padded
\* with zeros to n samples and n magnitudes come back, kept as terms
abs_ifft(spectra, n) ==
    [k \in 1..n |-> [abs_ifft |-> k - 1, n |-> n, of |-> spectra]]

\* magnitude = np.abs(np.fft.ifft(spectra, n=self.__nf, axis=0));
\* return magnitude[:self.__ns]
sp_apply_ifft(spectra) ==
    LET magnitude == abs_ifft(spectra, sp_nf)
    IN  SubSeq(magnitude, 1, IF sp_ns < Len(magnitude) THEN sp_ns ELSE Len(magnitude))

sp_generate_ascan(self_ref_fix, interference, reference) ==
    LET r == IF self_ref_fix = None THEN Some(sp_resample(reference)) ELSE self_ref_fix
    IN  [ref |-> r,
         ascan |-> sp_apply_ifft(sp_apply_window(
                       sp_remove_background(r[1], sp_resample(interference))))]

-----------------------------------------------------------------------------
(* Calls on one engine object *)

Hamasaki == "SignalProcessorHamasaki"
Kaiser == "SignalProcessor"

\* raw spectra on the wavelength axis: all zero, flat, one peak
Zero == [k \in 1..NS |-> 0]
Flat == [k \in 1..NS |-> 1]
Peak(j) == [k \in 1..NS |-> IF k = j THEN 3 ELSE 1]
Spectra == {Zero, Flat} \cup {Peak(j) : j \in 1..NS}
\* the spectra taken as the reference
References == {Zero, Flat, Peak(2)}
\* the spectra measured along a scan
ScanSpectra == {Peak(1), Peak(3)}
ScanRows == UNION {[1..n -> ScanSpectra] : n \in 0..MaxRows}
\* grids given as lists of rows: row 0 has w0 spectra, the other rows w
ScanGrids ==
    {[i \in 1..p |-> [j \in 1..(IF i = 1 THEN w0 ELSE w) |->
                         IF (i + j) % 2 = 0 THEN Peak(1) ELSE Flat]] :
        p \in 1..MaxRows, w0 \in 1..MaxRows, w \in 1..MaxRows}
\* spectra of the second spectrometer
AbsSpectra == {<<1, 10>>, <<10, 1>>, <<0, 1>>}
AbsRows == UNION {[1..n -> AbsSpectra] : n \in 0..MaxRows}
WlBounds == {2, 4, 5, 12, 13}
\* spectra with one sample fewer and one more than the wavelength axis
WrongLength == {[k \in 1..(NS - 1) |-> 1], [k \in 1..(NS + 1) |-> 1]}

\* wavelength axes given to the constructor: increasing, decreasing, with a
\* repeated sample, and out of order
WavelengthAxes ==
    {wavelength,
     [k \in 1..NS |-> wavelength[NS + 1 - k]],
     [k \in 1..NS |-> wavelength[IF k = 2 THEN 1 ELSE k]],
     [k \in 1..NS |-> wavelength[IF k = 1 THEN 2 ELSE IF k = 2 THEN 1 ELSE k]]}
DepthMaxes == {F(1), depth_max}
Resolutions == 1..Res

\* the arrays a new engine object holds: SignalProcessorHamasaki's depth
\* axis, fixed frequency axis and sine basis; SignalProcessor's fixed
\* wavelength axis
AxesOf(class) ==
    IF class = Hamasaki
    THEN [depth |-> __init__(wavelength, depth_max, Res).depth,
          freq_fixed |-> __init__(wavelength, depth_max, Res).freq_fixed,
          freq_dataset |-> __init__(wavelength, depth_max, Res).freq_dataset]
    ELSE [wl_fix |-> sp_wl_fix, depth |-> sp_depth]

InitEngine ==
    /\ op = "idle"
    /\ args = <<>>
    /\ out = NoOutcome
    /\ vol = Volume(1, 1, 1)
    /\ ref = None
    /\ inc = None
    /\ ref_fix = None
    /\ host = NoHost
    /\ engine \in {Hamasaki, Kaiser}
    /\ axes = AxesOf(engine)
    /\ tasks = <<>>
    /\ hist = NoHistory
    /\ files = NoFiles
    /\ kb = NoKeyboard

Call(name, a, outcome) ==
    /\ Idle
    /\ op' = name
    /\ args' = a
    /\ out' = outcome

\* a generate_* call that reaches generate_ascan is recorded as the first one
\* if neither it nor set_reference has been called before
NoteGenerate(reference) ==
    IF hist.set_ref = None /\ hist.first = None
    THEN [hist EXCEPT !.first = Some(reference)]
    ELSE hist

\* SignalProcessorHamasaki(wl, 1, dmax, resolution) makes another object
Construct ==
    /\ engine = Hamasaki
    /\ Idle
    /\ \E wl \in WavelengthAxes, dmax \in DepthMaxes, resolution \in Resolutions :
          Call("__init__", [wavelength |-> wl, depth_max |-> dmax, resolution |-> resolution],
               Returned(Some(__init__(wl, dmax, resolution)), ""))
    /\ UNCHANGED <<vol, ref, inc, ref_fix, host, engine, files, kb, axes, tasks, hist>>

SetReference ==
    /\ engine = Hamasaki
    /\ \E reference \in References \cup WrongLength :
          IF interp1d_error(self_freq, reference) # ""
          THEN /\ Call("set_reference", [reference |-> reference],
                       Raised(interp1d_error(self_freq, reference), ""))
               /\ UNCHANGED <<ref, hist>>
          ELSE /\ Call("set_reference", [reference |-> reference], NoOutcome)
               /\ ref' = Some(resample(reference))
               /\ hist' = [hist EXCEPT !.set_ref = Some(reference), !.first = None]
    /\ UNCHANGED <<vol, inc, ref_fix, host, engine, files, kb, axes, tasks>>

\* self.__inc=incidence
SetIncidence ==
    /\ engine = Hamasaki
    /\ \E incidence \in AbsSpectra :
          /\ Call("set_incidence", [incidence |-> incidence], NoOutcome)
          /\ ref' = set_incidence([ref |-> ref, inc |-> inc], incidence).ref
          /\ inc' = set_incidence([ref |-> ref, inc |-> inc], incidence).inc
          /\ hist' = [hist EXCEPT !.set_inc = Some(incidence)]
    /\ UNCHANGED <<vol, ref_fix, host, engine, files, kb, axes, tasks>>

Resample ==
    /\ engine = Hamasaki
    /\ \E spectra \in Spectra \cup WrongLength :
          Call("resample", [spectra |-> spectra],
               IF interp1d_error(self_freq, spectra) # ""
               THEN Raised(interp1d_error(self_freq, spectra), "")
               ELSE Returned(Some(resample(spectra)), ""))
    /\ UNCHANGED <<vol, ref, inc, ref_fix, host, engine, files, kb, axes, tasks, hist>>

\* with no reference cached np.amax(spectra)/np.amax(None) raises
RemoveBackground ==
    /\ engine = Hamasaki
    /\ \E spectra \in Spectra :
          Call("remove_background", [spectra |-> spectra],
               IF ref = None
               THEN Raised("TypeError: unsupported operand type(s) for /", "")
               ELSE Returned(Some(remove_background(ref[1], Floats(spectra))), ""))
    /\ UNCHANGED <<vol, ref, inc, ref_fix, host, engine, files, kb, axes, tasks, hist>>

ApplyInverseFt ==
    /\ engine = Hamasaki
    /\ \E spectra \in Spectra :
          /\ Call("apply_inverse_ft", [spectra |-> spectra],
                  Returned(Some(apply_inverse_ft(Floats(spectra))), ""))
          /\ axes' = apply_inverse_ft_axes(axes, Floats(spectra))
    /\ UNCHANGED <<vol, ref, inc, ref_fix, host, engine, files, kb, tasks, hist>>

\* the transform of signal_processor.py's SignalProcessorHamasaki on the
\* same depth and frequency axes
LoopApplyInverseFt ==
    /\ engine = Hamasaki
    /\ \E spectra \in Spectra :
          Call("loop_apply_inverse_ft", [spectra |-> spectra],
               Returned(Some(loop_apply_inverse_ft(Floats(spectra))), ""))
    /\ UNCHANGED <<vol, ref, inc, ref_fix, host, engine, files, kb, axes, tasks, hist>>

GenerateAscan ==
    /\ engine = Hamasaki
    /\ Idle
    /\ \E interference \in Spectra \cup WrongLength,
          reference \in References \cup WrongLength :
          \E a \in {generate_ascan(ref, interference, reference)} :
              /\ Call("generate_ascan",
                      [interference |-> interference, reference |-> reference],
                      IF a.raised = "" THEN Returned(Some(a.ascan), "")
                      ELSE Raised(a.raised, ""))
              /\ ref' = a.ref
              /\ axes' = IF a.raised # "" THEN axes
                         ELSE apply_inverse_ft_axes(axes,
                                  remove_background(a.ref[1], resample(interference)))
              /\ hist' = IF a.ref = None THEN hist ELSE NoteGenerate(reference)
    /\ UNCHANGED <<vol, inc, ref_fix, host, engine, files, kb, tasks>>

GenerateBscan ==
    /\ engine = Hamasaki
    /\ \E interference \in ScanRows, reference \in References :
          LET b == generate_bscan(ref, interference, reference)
          IN  /\ Call("generate_bscan",
                      [interference |-> interference, reference |-> reference],
                      Returned(Some(b.bscan), "Generating B-scan..."))
              /\ ref' = b.ref
              /\ axes' = axes_after(axes, b.ref[1], interference, 1)
              /\ hist' = IF Len(interference) > 0 THEN NoteGenerate(reference) ELSE hist
    /\ UNCHANGED <<vol, inc, ref_fix, host, engine, files, kb, tasks>>

GenerateCscan ==
    /\ engine = Hamasaki
    /\ \E interference \in ScanGrids, reference \in References :
          LET v == generate_cscan(ref, interference, reference)
          IN  /\ Call("generate_cscan",
                      [interference |-> interference, reference |-> reference],
                      IF v.raised = ""
                      THEN Returned(Some(v.cscan), "Generating C-scan...")
                      ELSE Raised(v.raised, "Generating C-scan..."))
              /\ ref' = v.ref
              /\ axes' = axes_after(axes, v.ref[1], cscan_order(interference, 1, <<>>), 1)
              /\ hist' = NoteGenerate(reference)
    /\ UNCHANGED <<vol, inc, ref_fix, host, engine, files, kb, tasks>>

\* sp.calculate_absorbance(reflection, incidence)
MethodCalculateAbsorbance ==
    /\ engine = Hamasaki
    /\ \E reflection \in AbsSpectra, incidence \in AbsSpectra :
          LET a == self_calculate_absorbance(inc, <<reflection, incidence>>)
          IN  /\ Call("self.calculate_absorbance",
                      [reflection |-> reflection, incidence |-> incidence],
                      IF a.raised = "" THEN Returned(a.absorbance, "")
                      ELSE Raised(a.raised, ""))
              /\ inc' = a.inc
    /\ UNCHANGED <<vol, ref, ref_fix, host, engine, files, kb, axes, tasks, hist>>

\* sp.calculate_absorbance_2d(reflection): the cached incidence is only read
MethodCalculateAbsorbance2d ==
    /\ engine = Hamasaki
    /\ \E reflection \in AbsRows :
          Call("self.calculate_absorbance_2d", [reflection |-> reflection],
               self_calculate_absorbance_2d(inc, reflection))
    /\ UNCHANGED <<vol, ref, inc, ref_fix, host, engine, files, kb, axes, tasks, hist>>

FindIndex ==
    /\ engine = Hamasaki
    /\ \E wl \in WavelengthAxes \cup {<<>>}, lo \in WlBounds, hi \in WlBounds :
          Call("find_index", [wavelength |-> wl, wl_range |-> <<lo, hi>>],
               find_index(wl, <<lo, hi>>))
    /\ UNCHANGED <<vol, ref, inc, ref_fix, host, engine, files, kb, axes, tasks, hist>>

SpSetReference ==
    /\ engine = Kaiser
    /\ \E reference \in References :
          /\ Call("set_reference", [reference |-> reference],
                  Returned(Some(sp_resample(reference)), ""))
          /\ ref_fix' = Some(sp_resample(reference))
          /\ hist' = [hist EXCEPT !.set_ref = Some(reference), !.first = None]
    /\ UNCHANGED <<vol, ref, inc, host, engine, files, kb, axes, tasks>>

SpResample ==
    /\ engine = Kaiser
    /\ \E spectra \in Spectra :
          Call("resample", [spectra |-> spectra], Returned(Some(sp_resample(spectra)), ""))
    /\ UNCHANGED <<vol, ref, inc, ref_fix, host, engine, files, kb, axes, tasks, hist>>

\* spectra - self.__ref_fix, on a spectrum that has been resampled; with no
\* reference cached the subtraction of None raises
SpRemoveBackground ==
    /\ engine = Kaiser
    /\ \E spectra \in Spectra :
          Call("remove_background", [spectra |-> sp_resample(spectra)],
               IF ref_fix = None
               THEN Raised("TypeError: unsupported operand type(s) for -", "")
               ELSE Returned(Some(sp_remove_background(ref_fix[1], sp_resample(spectra))), ""))
    /\ UNCHANGED <<vol, ref, inc, ref_fix, host, engine, files, kb, axes, tasks, hist>>

\* apply_ifft of an array of any length
SpApplyIfft ==
    /\ engine = Kaiser
    /\ \E spectra \in Spectra \cup WrongLength :
          Call("apply_ifft", [spectra |-> spectra],
               Returned(Some(sp_apply_ifft(Floats(spectra))), ""))
    /\ UNCHANGED <<vol, ref, inc, ref_fix, host, engine, files, kb, axes, tasks, hist>>

SpGenerateAscan ==
    /\ engine = Kaiser
    /\ \E interference \in Spectra, reference \in References :
          LET a == sp_generate_ascan(ref_fix, interference, reference)
          IN  /\ Call("generate_ascan",
                      [interference |-> interference, reference |-> reference],
                      Returned(Some(a.ascan), ""))
              /\ ref_fix' = a.ref
              /\ hist' = NoteGenerate(reference)
    /\ UNCHANGED <<vol, ref, inc, host, engine, files, kb, axes, tasks>>

NextEngine ==
    \/ Construct
    \/ SetReference \/ SetIncidence \/ Resample \/ RemoveBackground
    \/ ApplyInverseFt \/ GenerateAscan \/ GenerateBscan \/ GenerateCscan
    \/ MethodCalculateAbsorbance \/ MethodCalculateAbsorbance2d
    \/ FindIndex \/ AnalyzeCscan
    \/ SpSetReference \/ SpResample \/ SpRemoveBackground \/ SpGenerateAscan
    \/ SpApplyIfft \/ LoopApplyInverseFt
    \/ Discard

SpecEngine == InitEngine /\ [][NextEngine]_vars

-----------------------------------------------------------------------------
(* Properties of the engine's caches and scans *)

\* C6: on an engine whose incidence spectrum is set, calculate_absorbance_2d
\* returns a matrix with one row per input row, row i being
\* calculate_absorbance of reflection[i] against the cached incidence.
C6_Absorbance2dRows ==
    (op = "self.calculate_absorbance_2d" /\ inc # None) =>
        /\ out.raised = ""
        /\ out.result # None
        /\ Len(out.result[1]) = Len(args.reflection)
        /\ \A i \in 1..Len(args.reflection) :
              out.result[1][i] = calculate_absorbance(args.reflection[i], inc[1])

\* the A-scan an engine computes from the raw reference r
AscanAgainst(r, interference) ==
    apply_inverse_ft(remove_background(resample(r), resample(interference)))
sp_AscanAgainst(r, interference) ==
    sp_apply_ifft(sp_apply_window(
        sp_remove_background(sp_resample(r), sp_resample(interference))))

\* C7: on either engine, as long as set_reference has not been called, the
\* cached reference is the resampled reference of the first generate_ascan
\* call, and every generate_ascan call that returns removes that background
\* whatever reference it passes.
C7_FirstReferenceKept ==
    hist.first # None =>
        /\ engine = Hamasaki =>
              /\ ref = Some(resample(hist.first[1]))
              /\ (op = "generate_ascan" /\ out.raised = "") =>
                    out.result = Some(AscanAgainst(hist.first[1], args.interference))
        /\ engine = Kaiser =>
              /\ ref_fix = Some(sp_resample(hist.first[1]))
              /\ op = "generate_ascan" =>
                    out.result = Some(sp_AscanAgainst(hist.first[1], args.interference))

\* a later generate_ascan call passes another reference, which would have
\* given another A-scan
C7_Witness ==
    /\ engine = Hamasaki
    /\ op = "generate_ascan"
    /\ out.raised = ""
    /\ hist.first # None
    /\ args.reference # hist.first[1]
    /\ Len(args.reference) = NS
    /\ out.result[1] # AscanAgainst(args.reference, args.interference)
    /\ \E d \in 1..Res : IsFin(out.result[1][d]) /\ out.result[1][d] # F(0)

\* C8: after set_reference(R) the cached reference is resample(R), and after
\* set_incidence(I) the cached incidence is I, for the arguments of the
\* latest such call, whatever other calls have been made since.
C8_SetValuePersists ==
    /\ (engine = Hamasaki /\ hist.set_ref # None) => ref = Some(resample(hist.set_ref[1]))
    /\ (engine = Kaiser /\ hist.set_ref # None) => ref_fix = Some(sp_resample(hist.set_ref[1]))
    /\ hist.set_inc # None => inc = hist.set_inc

\* a call that passes another incidence on an engine with both caches set
C8_Witness ==
    /\ hist.set_ref # None
    /\ hist.set_inc # None
    /\ op = "self.calculate_absorbance"
    /\ args.incidence # hist.set_inc[1]
    /\ out.raised = ""

\* C10: generate_bscan returns one row of Res samples per interference
\* spectrum, row i being the A-scan generate_ascan gives on this engine for
\* interference[i] and the same reference; on an engine that had no reference
\* before, that is the A-scan against the reference argument.
C10_BscanRows ==
    op = "generate_bscan" =>
        /\ out.raised = ""
        /\ Len(out.result[1]) = Len(args.interference)
        /\ \A i \in 1..Len(args.interference) :
              /\ Len(out.result[1][i]) = Res
              /\ out.result[1][i] =
                    generate_ascan(ref, args.interference[i], args.reference).ascan
              /\ (hist.first = Some(args.reference)) =>
                    out.result[1][i] =
                        generate_ascan(None, args.interference[i], args.reference).ascan

\* a B-scan of several rows that differ
C10_Witness ==
    /\ op = "generate_bscan"
    /\ Len(args.interference) >= 2
    /\ hist.first = Some(args.reference)
    /\ out.result[1][1] # out.result[1][2]
    /\ \E d \in 1..Res : IsFin(out.result[1][2][d]) /\ out.result[1][2][d] # F(0)

\* C11 as stated: generate_cscan returns, and the entry at every position
\* (i, j) of the input grid is the A-scan of interference[i][j], also when the
\* rows of the grid differ in length.
C11_CscanEveryPosition ==
    op = "generate_cscan" =>
        /\ out.raised = ""
        /\ \A i \in 1..Len(args.interference) : \A j \in 1..Len(args.interference[i]) :
              /\ j <= Len(out.result[1][i])
              /\ out.result[1][i][j] =
                    generate_ascan(ref, args.interference[i][j], args.reference).ascan

HasLongerRow(grid) == \E i \in 1..Len(grid) : Len(grid[i]) > Len(grid[1])

\* C11, amended: the volume has len(interference) x len(interference[0])
\* entries.  If no row is longer than row 0 the call returns it, the entry at
\* each position of the grid being the A-scan of interference[i][j] and the
\* entries past the end of a shorter row being zero; if some row is longer
\* than row 0 the call raises IndexError and returns nothing.
C11_CscanWithinRowZero ==
    op = "generate_cscan" =>
        LET grid == args.interference
        IN  IF HasLongerRow(grid)
            THEN out.raised # "" /\ out.result = None
            ELSE /\ out.raised = ""
                 /\ Len(out.result[1]) = Len(grid)
                 /\ \A i \in 1..Len(grid) :
                       /\ Len(out.result[1][i]) = Len(grid[1])
                       /\ \A j \in 1..Len(grid[1]) :
                             out.result[1][i][j] =
                                 IF j <= Len(grid[i])
                                 THEN generate_ascan(ref, grid[i][j], args.reference).ascan
                                 ELSE [d \in 1..Res |-> F(0)]

\* a grid with a row shorter than row 0 and cells that differ
C11_Witness ==
    /\ op = "generate_cscan"
    /\ out.raised = ""
    /\ \E i \in 1..Len(args.interference) :
          Len(args.interference[i]) < Len(args.interference[1])
    /\ Len(args.interference[1]) >= 2
    /\ out.result[1][1][1] # out.result[1][1][2]

\* the sum of sines generate_ascan normalises, for the call held in args
RawSineSum ==
    sine_sum(remove_background(ref[1], resample(args.interference)), 1,
             [d \in 1..Len(self_depth) |-> F(0)])
ZeroSignal == \A d \in 1..Res : RawSineSum[d] = F(0)

\* C12 (Engine B): unless the signal is identically zero, every sample of an
\* A-scan that generate_ascan returns lies in [0, 1] and at least one sample
\* equals 1.
C12_AscanInUnitRange ==
    (engine = Hamasaki /\ op = "generate_ascan" /\ out.raised = "" /\ ~ZeroSignal) =>
        /\ \A d \in 1..Res : FLe(F(0), out.result[1][d]) /\ FLe(out.result[1][d], F(1))
        /\ \E d \in 1..Res : out.result[1][d] = F(1)

\* the peak of an array is a number other than zero
NonZeroPeak(array) == IsFin(amax(array)) /\ amax(array) # F(0)
\* the spectrum given to remove_background, as the engine computes with it
GivenSpectrum == IF engine = Hamasaki THEN Floats(args.spectra) ELSE args.spectra
CachedReference == IF engine = Hamasaki THEN ref ELSE ref_fix

\* C13: with a reference set whose resampled peak is non-zero,
\* remove_background of the resampled reference itself is the all-zero
\* spectrum, in both engines.
C13_ReferenceRemovesItself ==
    (/\ op = "remove_background"
     /\ CachedReference # None
     /\ GivenSpectrum = CachedReference[1]
     /\ NonZeroPeak(CachedReference[1])) =>
        /\ out.raised = ""
        /\ out.result[1] = [i \in 1..Len(GivenSpectrum) |-> F(0)]

C13_Witness ==
    /\ op = "remove_background"
    /\ engine = Kaiser
    /\ ref_fix # None
    /\ args.spectra = ref_fix[1]
    /\ NonZeroPeak(ref_fix[1])
    /\ \E i \in 1..sp_ns : ref_fix[1][i] # F(0)
    /\ out.result[1] = [i \in 1..sp_ns |-> F(0)]

\* C14 (Engine B): when the cached reference's peak is zero,
\* remove_background and generate_ascan raise to the caller instead of
\* returning an array that holds NaN or infinite values.
C14_ZeroPeakRaises ==
    (/\ engine = Hamasaki
     /\ op \in {"remove_background", "generate_ascan"}
     /\ ref # None
     /\ amax(ref[1]) = F(0)) =>
        /\ out.raised # ""
        /\ out.result = None

StrictlyIncreasing(wl) == \A i \in 1..(Len(wl) - 1) : FLt(wl[i], wl[i + 1])

\* C15 (Engine B): resample, set_reference and generate_ascan given a spectrum
\* whose length differs from the wavelength axis raise and return nothing,
\* and the constructor given a wavelength axis that is not strictly
\* increasing raises.
C15_RejectsBadInput ==
    /\ (/\ engine = Hamasaki
        /\ op \in {"resample", "set_reference", "generate_ascan"}
        /\ \E f \in DOMAIN args : Len(args[f]) # Len(wavelength)) =>
           out.raised # "" /\ out.result = None
    /\ (op = "__init__" /\ ~StrictlyIncreasing(args.wavelength)) =>
           out.raised # "" /\ out.result = None

\* the part of C15 about lengths, for the spectra the call resamples: the
\* reference of generate_ascan is resampled only if none is cached
C15_ResampledLengthRaises ==
    /\ (/\ engine = Hamasaki
        /\ op \in {"resample", "set_reference"}
        /\ \E f \in DOMAIN args : Len(args[f]) # Len(wavelength)) =>
           out.raised # "" /\ out.result = None
    /\ (/\ engine = Hamasaki
        /\ op = "generate_ascan"
        /\ Len(args.interference) # Len(wavelength)) =>
           out.raised # "" /\ out.result = None

\* the samples of an axis are equally spaced
Uniform(axis) ==
    \A i \in 1..(Len(axis) - 1) :
        FSub(axis[i + 1], axis[i]) = FSub(axis[2], axis[1])
\* every A-scan has as many samples as the depth axis of the engine
AscanLengthIsRes ==
    (engine = Hamasaki /\ op = "generate_ascan" /\ out.raised = "") =>
        Len(out.result[1]) = Res /\ Len(self_depth) = Res

\* C16 as stated: the depth axis of an engine constructed with depth_max d
\* and resolution R has exactly R uniformly spaced samples, the first 0 and
\* the last d, for every R; every A-scan has length R.
C16_DepthAxisEndsAtMax ==
    /\ op = "__init__" =>
          LET depth == out.result[1].depth
          IN  /\ Len(depth) = args.resolution
              /\ Uniform(depth)
              /\ depth[1] = F(0)
              /\ depth[Len(depth)] = args.depth_max
    /\ AscanLengthIsRes

\* C16 for R >= 2; with R = 1 the axis is the single sample 0, whatever d is
C16_DepthAxisOfTwoOrMore ==
    /\ op = "__init__" =>
          LET depth == out.result[1].depth
          IN  /\ Len(depth) = args.resolution
              /\ Uniform(depth)
              /\ depth[1] = F(0)
              /\ args.resolution >= 2 => depth[Len(depth)] = args.depth_max
              /\ (/\ args.wavelength = wavelength
                  /\ args.depth_max = depth_max
                  /\ args.resolution = Res) => depth = self_depth
    /\ AscanLengthIsRes

\* the engine of the model is constructed: three or more samples, the
\* second one step after 0
C16_Witness ==
    /\ op = "__init__"
    /\ args.wavelength = wavelength
    /\ args.depth_max = depth_max
    /\ args.resolution = Res
    /\ Res >= 3
    /\ out.result[1].depth = self_depth
    /\ out.result[1].depth[2] = FDiv(depth_max, F(Res - 1))
    /\ out.result[1].depth[Res] = depth_max

\* C17 (Engine B): the depth axis, the fixed frequency axis and the sine
\* basis are those the constructor computed, whatever operations have been
\* called on the engine since.
C17_AxesFixed ==
    engine = Hamasaki =>
        /\ axes.depth = self_depth
        /\ axes.freq_fixed = self_freq_fixed
        /\ axes.freq_dataset = self_freq_dataset
        /\ Len(axes.depth) = Res
        /\ Len(axes.freq_fixed) = NS * signal_length
        /\ Len(axes.freq_dataset) = NS * signal_length

\* a C-scan with a non-zero A-scan has been computed on an engine that holds
\* a reference and an incidence spectrum
C17_Witness ==
    /\ engine = Hamasaki
    /\ op = "generate_cscan"
    /\ out.raised = ""
    /\ ref # None
    /\ inc # None
    /\ Len(args.interference) >= 2
    /\ out.result[1][1][1] # [d \in 1..Res |-> F(0)]
    /\ axes.depth = self_depth

\* C19 (Engine B): set_incidence and calculate_absorbance leave the cached
\* reference as it is, set_reference and generate_ascan/bscan/cscan leave the
\* cached incidence as it is; the absorbance is computed from the reflection
\* and the cached incidence alone, the A-scan from the interference and the
\* cached reference alone.
C19_CachesIndependent ==
    /\ [](engine = Hamasaki =>
            /\ (op = "self.calculate_absorbance" /\ out.raised = "") =>
                  out.result = Some(calculate_absorbance(args.reflection, inc[1]))
            /\ (op = "generate_ascan" /\ out.raised = "") =>
                  out.result = Some(apply_inverse_ft(
                                   remove_background(ref[1], resample(args.interference)))))
    /\ [][engine = Hamasaki =>
            /\ op' \in {"set_incidence", "self.calculate_absorbance",
                        "self.calculate_absorbance_2d"} => ref' = ref
            /\ op' \in {"set_reference", "generate_ascan", "generate_bscan",
                        "generate_cscan"} => inc' = inc]_vars

\* set_incidence on an engine that holds a reference other than all zero
C19_Witness ==
    /\ engine = Hamasaki
    /\ op = "set_incidence"
    /\ inc = Some(args.incidence)
    /\ hist.set_ref # None
    /\ ref = Some(resample(hist.set_ref[1]))
    /\ \E k \in 1..Len(ref[1]) : ref[1][k] # F(0)

\* i is the smallest index (from 0) of the axis whose sample is >= bound
SmallestIndexAtLeast(axis, bound, i) ==
    /\ i \in 0..(Len(axis) - 1)
    /\ FGe(axis[i + 1], F(bound))
    /\ \A j \in 0..(i - 1) : FLt(axis[j + 1], F(bound))

\* C20: for a strictly increasing wavelength axis and lo <= hi <= max(axis),
\* find_index returns (start, end), start the smallest index with
\* wavelength[start] >= lo and end the smallest with wavelength[end] >= hi;
\* start <= end and every sample of wavelength[start:end] is in [lo, hi).
C20_FindIndexBounds ==
    (/\ op = "find_index"
     /\ Len(args.wavelength) > 0
     /\ StrictlyIncreasing(args.wavelength)
     /\ args.wl_range[1] <= args.wl_range[2]
     /\ FLe(F(args.wl_range[2]), amax(args.wavelength))) =>
        /\ out.raised = ""
        /\ SmallestIndexAtLeast(args.wavelength, args.wl_range[1], out.result[1][1])
        /\ SmallestIndexAtLeast(args.wavelength, args.wl_range[2], out.result[1][2])
        /\ out.result[1][1] <= out.result[1][2]
        /\ \A k \in out.result[1][1]..(out.result[1][2] - 1) :
              /\ FGe(args.wavelength[k + 1], F(args.wl_range[1]))
              /\ FLt(args.wavelength[k + 1], F(args.wl_range[2]))

\* a range that starts at a sample of the axis, ends at its largest sample
\* and holds two samples or more
C20_Witness ==
    /\ op = "find_index"
    /\ \E k \in 1..Len(args.wavelength) : args.wavelength[k] = F(args.wl_range[1])
    /\ F(args.wl_range[2]) = amax(args.wavelength)
    /\ out.raised = ""
    /\ out.result[1][1] >= 1
    /\ out.result[1][2] = Len(args.wavelength) - 1
    /\ out.result[1][2] - out.result[1][1] >= 2

\* some sample of the axis is >= bound; bound is below every sample
SomeSampleAtLeast(axis, bound) == \E k \in 1..Len(axis) : FGe(axis[k], F(bound))
BelowAxis(axis, bound) ==
    Len(axis) > 0 /\ \A k \in 1..Len(axis) : FLt(F(bound), axis[k])

\* C30: find_index returns exactly when some wavelength is >= wl_range[0]
\* and some wavelength is >= wl_range[1]; when a bound is above every sample,
\* or the axis is empty, the call ends with an unbound-variable error and
\* returns no indices; a bound below every sample gets index 0.
C30_FindIndexUnbound ==
    op = "find_index" =>
        /\ out.raised = "" <=>
              /\ SomeSampleAtLeast(args.wavelength, args.wl_range[1])
              /\ SomeSampleAtLeast(args.wavelength, args.wl_range[2])
        /\ out.raised # "" =>
              /\ out.raised \in {"UnboundLocalError: start", "UnboundLocalError: end"}
              /\ out.result = None
        /\ out.raised = "" =>
              /\ BelowAxis(args.wavelength, args.wl_range[1]) => out.result[1][1] = 0
              /\ BelowAxis(args.wavelength, args.wl_range[2]) => out.result[1][2] = 0

\* a call whose lower bound is below the axis and whose upper bound is above
\* it, on an axis that is not sorted
C30_Witness ==
    /\ op = "find_index"
    /\ ~StrictlyIncreasing(args.wavelength)
    /\ BelowAxis(args.wavelength, args.wl_range[1])
    /\ ~SomeSampleAtLeast(args.wavelength, args.wl_range[2])
    /\ out.raised = "UnboundLocalError: end"

\* a spectrum on [0, 1] that takes both ends
MinMaxNormalized(r) ==
    /\ \A i \in 1..Len(r) : FLe(F(0), r[i]) /\ FLe(r[i], F(1))
    /\ \E i \in 1..Len(r) : r[i] = F(0)
    /\ \E i \in 1..Len(r) : r[i] = F(1)

\* C23: the resample of the engine with Kaiser window returns, for every
\* input spectrum, a constant one included, a spectrum whose smallest sample
\* is 0, whose largest sample is 1 and whose samples all lie in [0, 1].
C23_ResampleMinMax ==
    (engine = Kaiser /\ op = "resample" /\ out.raised = "") =>
        MinMaxNormalized(out.result[1])

\* the part that holds: a spectrum with two different samples is mapped
\* onto [0, 1]; a constant one is returned as nan throughout
C23_ResampleMinMaxUnlessConstant ==
    (engine = Kaiser /\ op = "resample" /\ out.raised = "") =>
        IF \E i, j \in 1..NS : args.spectra[i] # args.spectra[j]
        THEN MinMaxNormalized(out.result[1])
        ELSE \A i \in 1..NS : IsNan(out.result[1][i])

\* C24: the depth-domain transform of either engine returns a profile as
\* long as the engine's depth axis, whatever the input values, and with no
\* negative sample: apply_inverse_ft returns one absolute value per point of
\* the depth axis, apply_ifft the first ns of the 2*ns magnitudes of the
\* padded transform.
C24_ProfileShape ==
    /\ (engine = Hamasaki /\ op = "apply_inverse_ft" /\ out.raised = "") =>
           /\ Len(out.result[1]) = Len(axes.depth)
           /\ \A d \in 1..Len(out.result[1]) : ~FLt(out.result[1][d], F(0))
    /\ (engine = Kaiser /\ op = "apply_ifft" /\ out.raised = "") =>
           /\ Len(out.result[1]) = Len(axes.depth)
           /\ Len(out.result[1]) = sp_ns
           /\ \A k \in 1..Len(out.result[1]) :
                 out.result[1][k] =
                     [abs_ifft |-> k - 1, n |-> 2 * sp_ns, of |-> Floats(args.spectra)]

\* a profile of apply_inverse_ft whose sum of sines is negative at some
\* depth, and a profile of apply_ifft of an array longer than the axis
C24_Witness ==
    \/ /\ engine = Hamasaki /\ op = "apply_inverse_ft" /\ out.raised = ""
       /\ \E d \in 1..Len(axes.depth) :
             FLt(apply_inverse_ft_signed(Floats(args.spectra))[d], F(0))
    \/ /\ engine = Kaiser /\ op = "apply_ifft" /\ out.raised = ""
       /\ Len(args.spectra) > sp_ns

\* C26: on the same depth axis and fixed frequency axis, the transform that
\* adds rows of the basis computed at construction and the transform that
\* evaluates the sines inside its loop return the same profile for every
\* spectrum as long as the fixed frequency axis.
C26_BasisEqualsLoop ==
    (/\ engine = Hamasaki
     /\ op \in {"apply_inverse_ft", "loop_apply_inverse_ft"}
     /\ out.raised = ""
     /\ Len(args.spectra) = Len(self_freq_fixed)) =>
        /\ op = "apply_inverse_ft" =>
              out.result[1] = loop_apply_inverse_ft(Floats(args.spectra))
        /\ op = "loop_apply_inverse_ft" =>
              out.result[1] = apply_inverse_ft(Floats(args.spectra))

\* a profile of a spectrum with one peak away from the middle, with a sample
\* that is neither 0 nor nan
C26_Witness ==
    /\ engine = Hamasaki
    /\ op = "loop_apply_inverse_ft"
    /\ args.spectra = Peak(1)
    /\ \E d \in 1..Len(out.result[1]) :
          IsFin(out.result[1][d]) /\ out.result[1][d] # F(0)

\* C27: a generate_ascan or set_reference call that ends with an error
\* leaves the cached reference of the engine as it was before the call: None
\* stays None, and a cached reference stays the same one.
C27_FailedCallKeepsCalibration ==
    [][(op' \in {"generate_ascan", "set_reference"} /\ out'.raised # "") =>
          (ref' = ref /\ ref_fix' = ref_fix)]_vars

\* the part that holds: a failed set_reference, and a failed generate_ascan
\* on an engine that holds a reference, change nothing; a generate_ascan on
\* an engine without one that fails on its interference spectrum has cached
\* the reference it was given
C27_FailedCallKeepsUnlessLazySet ==
    [][(op' \in {"generate_ascan", "set_reference"} /\ out'.raised # "") =>
          /\ ref_fix' = ref_fix
          /\ IF op' = "generate_ascan" /\ ref = None /\ Len(args'.reference) = NS
             THEN ref' = Some(resample(args'.reference))
             ELSE ref' = ref]_vars

-----------------------------------------------------------------------------
(* generate_bscan and generate_cscan on an engine that holds a reference,  *)
(* with the bodies of their loops run once per position in any order       *)

\* rectangular grids of spectra
TaskGrids ==
    {[i \in 1..p |-> [j \in 1..w |-> IF (i + j) % 2 = 0 THEN Peak(1) ELSE Peak(3)]] :
        p \in 1..MaxRows, w \in 1..2}

\* range(len(interference)), and with range(len(interference[i])) under it
Positions(name, interference) ==
    IF name = "generate_bscan"
    THEN {<<i>> : i \in 1..Len(interference)}
    ELSE {<<i, j>> : i \in 1..Len(interference), j \in 1..Len(interference[1])}

\* np.zeros((len(interference),res)) and
\* np.zeros((len(interference),len(interference[0]),res))
zeros(name, interference) ==
    IF name = "generate_bscan"
    THEN [i \in 1..Len(interference) |-> [d \in 1..Res |-> F(0)]]
    ELSE [i \in 1..Len(interference) |->
             [j \in 1..Len(interference[1]) |-> [d \in 1..Res |-> F(0)]]]

\* interference[i] and interference[i][j]
spectrum_at(interference, pos) ==
    IF Len(pos) = 1 THEN interference[pos[1]] ELSE interference[pos[1]][pos[2]]

\* the A-scan goes to the first slot of the scan instead
write_first_slot(scan, pos, ascan) ==
    IF Len(pos) = 1 THEN [scan EXCEPT ![1] = ascan]
    ELSE [scan EXCEPT ![1][1] = ascan]

\* bscan[i]=... and cscan[i][j]=...
write_slot(scan, pos, ascan) ==
    IF Len(pos) = 1 THEN [scan EXCEPT ![pos[1]] = ascan]
    ELSE [scan EXCEPT ![pos[1]][pos[2]] = ascan]

Todo == [state |-> "todo", ascan |-> <<>>]
Computed(ascan) == [state |-> "computed", ascan |-> ascan]
Done == [state |-> "done", ascan |-> <<>>]

InitScan ==
    /\ \E name \in {"generate_bscan", "generate_cscan"}, reference \in {Flat, Peak(2)} :
          \E interference \in IF name = "generate_bscan" THEN ScanRows ELSE TaskGrids :
              /\ op = name
              /\ args = [interference |-> interference, reference |-> reference]
              /\ out = Returned(Some(zeros(name, interference)),
                                IF name = "generate_bscan" THEN "Generating B-scan..."
                                ELSE "Generating C-scan...")
              /\ tasks = [pos \in Positions(name, interference) |-> Todo]
    /\ vol = Volume(1, 1, 1)
    /\ \E cached \in References : ref = Some(resample(cached))
    /\ inc = None
    /\ ref_fix = None
    /\ host = NoHost
    /\ engine = Hamasaki
    /\ axes = AxesOf(engine)
    /\ hist = NoHistory
    /\ files = NoFiles
    /\ kb = NoKeyboard

\* self.generate_ascan(interference[i], reference) for one position
ComputeAscan ==
    \E pos \in DOMAIN tasks :
        /\ tasks[pos] = Todo
        /\ \E a \in {generate_ascan(ref, spectrum_at(args.interference, pos), args.reference)} :
              /\ ref' = a.ref
              /\ tasks' = [tasks EXCEPT ![pos] = Computed(a.ascan)]
              /\ axes' = apply_inverse_ft_axes(axes,
                             remove_background(a.ref[1],
                                 resample(spectrum_at(args.interference, pos))))
        /\ UNCHANGED <<op, args, out, vol, inc, ref_fix, host, engine, files, kb, hist>>

\* the assignment of the A-scan to its slot of the scan
WriteSlot ==
    \E pos \in DOMAIN tasks :
        /\ tasks[pos].state = "computed"
        /\ out' = [out EXCEPT !.result = Some(write_slot(out.result[1], pos, tasks[pos].ascan))]
        /\ tasks' = [tasks EXCEPT ![pos] = Done]
        /\ UNCHANGED <<op, args, vol, ref, inc, ref_fix, host, engine, files, kb, axes, hist>>

NextScan == ComputeAscan \/ WriteSlot

SpecScan == InitScan /\ [][NextScan]_vars

\* what the method returns with its loops run in index order
Sequential ==
    IF op = "generate_bscan"
    THEN generate_bscan(ref, args.interference, args.reference).bscan
    ELSE generate_cscan(ref, args.interference, args.reference).cscan

\* C18: with the reference set beforehand, the A-scans of the positions of a
\* B-scan or C-scan may be computed and stored in any order: the reference is
\* not changed, a slot that has been written holds what the sequential loop
\* puts there, the others are still zero, and once all are written the scan
\* equals the sequential one.
C18_AnyOrderEqualsSequential ==
    /\ \E cached \in References : ref = Some(resample(cached))
    /\ \E scan \in {Sequential} :
          /\ \A pos \in DOMAIN tasks :
                spectrum_at(out.result[1], pos) =
                    IF tasks[pos] = Done THEN spectrum_at(scan, pos)
                    ELSE [d \in 1..Res |-> F(0)]
          /\ (\A pos \in DOMAIN tasks : tasks[pos] = Done) => out.result[1] = scan

\* the last position of a C-scan is stored while the first is still to be
\* computed and another one is computed but not stored
C18_Witness ==
    /\ op = "generate_cscan"
    /\ Cardinality(DOMAIN tasks) >= 3
    /\ tasks[<<1, 1>>] = Todo
    /\ tasks[<<Len(args.interference), Len(args.interference[1])>>] = Done
    /\ \E pos \in DOMAIN tasks : tasks[pos].state = "computed"
    /\ spectrum_at(out.result[1], <<Len(args.interference), Len(args.interference[1])>>)
           = spectrum_at(Sequential, <<Len(args.interference), Len(args.interference[1])>>)
    /\ spectrum_at(out.result[1], <<Len(args.interference), Len(args.interference[1])>>)
           # [d \in 1..Res |-> F(0)]

-----------------------------------------------------------------------------
(* The main loops of sd-oct.py and sd-oct+abs.py: one step per iteration *)

SdOct == "sd-oct"
SdOctAbs == "sd-oct+abs"

\* the calculation ranges of the two spectrometers: the raw arrays hold one
\* sample before the range
ccs_st == 1
ccs_ed == NS + 1
pma_st == 1
pma_ed == pma_st + 2
Raw(spectrum) == <<9>> \o spectrum
Window(raw) == SubSeq(raw, ccs_st + 1, ccs_ed)
PmaWindow(raw) == SubSeq(raw, pma_st + 1, pma_ed)

\* what ccs.read_spectra and pma.read_spectra deliver
RawReferences == {Raw(x) : x \in References}
RawScan == {Raw(x) : x \in ScanSpectra}
RawAbs == {Raw(<<1, 10>>), Raw(<<10, 1>>)}
RawReflect == {Raw(<<10, 10>>)}
\* step_h spectra of one line scan
step_h == MaxRows
LineScans == [1..step_h -> RawScan]
AbsLineScans == [1..step_h -> RawReflect]

InitHost ==
    /\ op = "main"
    /\ args = <<>>
    /\ out = NoOutcome
    /\ vol = Volume(1, 1, 1)
    /\ ref = None
    /\ inc = None
    /\ ref_fix = None
    /\ engine = Hamasaki
    /\ axes = AxesOf(engine)
    /\ tasks = <<>>
    /\ hist = NoHistory
    /\ files = NoFiles
    /\ kb = NoKeyboard
    /\ \E script \in {SdOct, SdOctAbs}, flag \in BOOLEAN :
          host = [NoHost EXCEPT !.script = script, !.stage_s_flag = flag]

\* the top of an iteration: the A-scan of the spectrum just read if the host
\* holds a reference, the absorbance of the one just read if it holds an
\* incidence spectrum
signal_processing(itf, reflect) ==
    LET a == IF host.ref = None THEN [ref |-> ref, ascan |-> None]
             ELSE LET g == generate_ascan(ref, Window(itf), Window(host.ref[1]))
                  IN  [ref |-> g.ref, ascan |-> Some(g.ascan)]
        b == IF host.script = SdOct \/ host.inc = None
             THEN [inc |-> inc, absorbance |-> None]
             ELSE LET m == self_calculate_absorbance(inc,
                              <<PmaWindow(reflect), PmaWindow(host.inc[1])>>)
                  IN  [inc |-> m.inc, absorbance |-> m.absorbance]
    IN  [ref |-> a.ref, inc |-> b.inc, ascan |-> a.ascan, absorbance |-> b.absorbance,
         hist |-> IF host.ref = None THEN hist ELSE NoteGenerate(Window(host.ref[1]))]

\* the calls a line scan makes on stage_s: absolute_move to the start, one
\* relative_move per spectrum, and the way back
line_scan(steps, back) ==
    <<"absolute_move">> \o [i \in 1..steps |-> "relative_move"] \o <<back>>

\* the program before a key's handler runs
Keep ==
    [host |-> host, ref |-> ref, inc |-> inc, hist |-> hist,
     result_map |-> None, printed |-> "", raised |-> "", stage |-> <<>>]

\* ref=None / reference=None
delete_reference_keeps(h) == h

delete_reference(h) == [h EXCEPT !.ref = None]

\* inc = None
delete_incidence(h) == [h EXCEPT !.inc = None]

\* the host variable assigned and the engine not told
update_reference_host_only(e, reference) ==
    [e EXCEPT !.host.ref = Some(reference),
              !.printed = "Reference data updated."]

\* ref = ccs.read_spectra(averaging=100); sp.set_reference(ref[st:ed])
update_reference(e, reference) ==
    [e EXCEPT !.host.ref = Some(reference),
              !.ref = Some(resample(Window(reference))),
              !.hist.set_ref = Some(Window(reference)),
              !.hist.first = None,
              !.printed = "Reference data updated."]

\* inc = pma.read_spectra(averaging=50); sp.set_incidence(inc[pma_st:pma_ed])
update_incidence(e, incidence) ==
    [e EXCEPT !.host.inc = Some(incidence),
              !.inc = Some(PmaWindow(incidence)),
              !.hist.set_inc = Some(PmaWindow(incidence)),
              !.printed = "Incident light data updated."]

\* result_map=sp.generate_bscan(itf[:,st:ed], ref[st:ed])
measure_bscan(e, itf, printed) ==
    \* the engine holds a reference here, so no first call is recorded
    LET b == generate_bscan(e.ref, [i \in 1..Len(itf) |-> Window(itf[i])],
                            Window(e.host.ref[1]))
    IN  [e EXCEPT !.ref = b.ref, !.result_map = Some(b.bscan), !.printed = printed]

\* result_map=sp.calculate_absorbance_2d(reflection=...)
measure_absorbance_2d(e, reflection) ==
    LET o == self_calculate_absorbance_2d(e.inc, reflection)
    IN  [e EXCEPT !.result_map = o.result, !.printed = o.printed, !.raised = o.raised]

Reflects == IF host.script = SdOct THEN {None} ELSE RawReflect

\* the top of an iteration: both spectrometers are read and the spectra
\* processed
SignalProcessing ==
    /\ op = "main"
    /\ host.raised = ""
    /\ \E itf \in RawScan, reflect \in Reflects :
          \E p \in {signal_processing(itf, reflect)} :
              /\ args' = [itf |-> itf, reflect |-> reflect]
              /\ out' = Returned(Some([ascan |-> p.ascan, absorbance |-> p.absorbance,
                                       result_map |-> None]), "")
              /\ ref' = p.ref
              /\ inc' = p.inc
              /\ hist' = p.hist
    /\ op' = "keys"
    /\ UNCHANGED <<vol, ref_fix, host, engine, files, kb, axes, tasks>>

\* the rest of the iteration with g_key = key: the program after the key's
\* handler, and g_key = None
Iteration(key, read, after) ==
    /\ op = "keys"
    /\ \E e \in {after} :
          /\ args' = [key |-> key, itf |-> args.itf, reflect |-> args.reflect,
                      read |-> read]
          /\ out' = [out EXCEPT !.raised = e.raised, !.printed = e.printed,
                                !.result[1].result_map = e.result_map]
          /\ host' = [e.host EXCEPT !.key = key, !.raised = e.raised, !.stage = e.stage]
          /\ ref' = e.ref
          /\ inc' = e.inc
          /\ hist' = e.hist
    /\ op' = "main"
    /\ UNCHANGED <<vol, ref_fix, engine, files, kb, axes, tasks>>

\* no key, or a key that saves a file
OtherKey ==
    \E key \in {"None", IF host.script = SdOct THEN "alt" ELSE "s"} :
        Iteration(key, None, Keep)

\* 'delete' (sd-oct.py), 't' (sd-oct+abs.py)
DeleteReference ==
    /\ host.script \in {SdOct, SdOctAbs}
    /\ Iteration(IF host.script = SdOct THEN "delete" ELSE "t", None,
           [Keep EXCEPT !.host = delete_reference(host),
                        !.printed = "Reference data deleted."])

\* 'enter'
UpdateReference ==
    /\ host.script \in {SdOct, SdOctAbs}
    /\ \E reference \in RawReferences :
          Iteration("enter", Some(reference), update_reference(Keep, reference))

\* 'd' (sd-oct.py), 'e' (sd-oct+abs.py)
MeasureBscan ==
    \E key \in {IF host.script = SdOct THEN "d" ELSE "e"} :
        IF host.ref # None /\ host.stage_s_flag
        THEN \E scan \in LineScans :
                Iteration(key, Some(scan),
                    measure_bscan([Keep EXCEPT !.stage = line_scan(step_h, "move_origin")],
                        scan,
                        IF host.script = SdOct THEN "Measurement(2D) start"
                        ELSE "OCT:Measurement(2D) start"))
        ELSE Iteration(key, None,
                [Keep EXCEPT !.printed =
                    IF host.script = SdOct
                    THEN IF host.stage_s_flag
                         THEN "Error:No reference data available." ELSE ""
                    ELSE IF host.stage_s_flag
                         THEN "Error:No reference data available."
                         ELSE "Error:Crux is not connected."])

\* the keys whose handlers call stage_s without testing stage_s_flag
StageKeys == {"4", "6", "5", "2", "8", "/", "p", "l"}

\* the calls each of those handlers makes on stage_s
stage_calls(script, key) ==
    IF key \in {"4", "6", "2", "8"}
    THEN {<<"relative_move", "read_position", "read_position">>}
    ELSE IF key = "5"
    THEN {<<m, "read_position", "read_position">> :
             m \in IF script = SdOct THEN {"move_origin", "biaxial_move"}
                   ELSE {"biaxial_move"}}
    ELSE IF key = "/" THEN {<<"absolute_move">>}
    ELSE IF key = "p" THEN {<<"biaxial_move", "absolute_move", "biaxial_move">>}
    ELSE {[i \in 1..5 |-> "biaxial_move"]}

\* what the handler prints before its first call on stage_s
stage_key_prints(script, key) ==
    IF script = SdOct /\ key \in {"p", "l"} THEN "pre-check function called." ELSE ""

\* the handler of a stage key: the name stage_s is bound only if
\* Crux('COM6') returned at start-up
stage_key(e, key, calls) ==
    IF e.host.stage_s_flag
    THEN [e EXCEPT !.stage = calls,
                   !.printed = IF key \in {"4", "6", "5", "2", "8"}
                               THEN "Stage position:x={}[mm],y={}[mm],z={}[nm]"
                               ELSE stage_key_prints(e.host.script, key)]
    ELSE [e EXCEPT !.raised = "NameError",
                   !.printed = stage_key_prints(e.host.script, key)]

\* '4', '6', '5', '2', '8', '/', 'p', 'l'
StageKey ==
    \E key \in StageKeys :
        \E calls \in stage_calls(host.script, key) :
            Iteration(key, None, stage_key(Keep, key, calls))

\* 'a'
UpdateIncidence ==
    /\ host.script = SdOctAbs
    /\ \E incidence \in RawAbs :
          Iteration("a", Some(incidence), update_incidence(Keep, incidence))

\* 'd' (sd-oct+abs.py)
MeasureAbsorbance2d ==
    /\ host.script = SdOctAbs
    /\ IF host.inc # None /\ host.stage_s_flag
       THEN \E scan \in AbsLineScans :
               Iteration("d", Some(scan),
                   measure_absorbance_2d(
                       [Keep EXCEPT !.stage = line_scan(step_h, "move_origin")],
                       [i \in 1..Len(scan) |-> PmaWindow(scan[i])]))
       ELSE Iteration("d", None,
               [Keep EXCEPT !.printed =
                   IF host.stage_s_flag
                   THEN "Error:Incident light data not found." ELSE ""])

\* 'g'
DeleteIncidence ==
    /\ host.script = SdOctAbs
    /\ Iteration("g", None,
           [Keep EXCEPT !.host = delete_incidence(host),
                        !.printed = "Incident light data deleted."])

\* 'z'
UpdateBoth ==
    /\ host.script = SdOctAbs
    /\ \E incidence \in RawAbs, reference \in RawReferences :
          Iteration("z", Some(<<incidence, reference>>),
              update_reference(update_incidence(Keep, incidence), reference))

\* 'c': calculate_absorbance_2d on the whole reflect array, then generate_bscan
MeasureBoth ==
    /\ host.script = SdOctAbs
    /\ IF host.inc # None /\ host.ref # None /\ host.stage_s_flag
       THEN \E scan \in AbsLineScans, itf \in LineScans :
               \E a \in {measure_absorbance_2d(
                            [Keep EXCEPT !.stage = line_scan(step_h, "biaxial_move")],
                            scan)} :
                   Iteration("c", Some(<<scan, itf>>),
                       IF a.raised # "" THEN a
                       ELSE measure_bscan(a, itf, "OCT & ABS:Measurement(2D) start"))
       ELSE Iteration("c", None,
               [Keep EXCEPT !.printed =
                   IF ~host.stage_s_flag THEN ""
                   ELSE IF host.ref = None
                   THEN "Error:No reference data available."
                   ELSE "Error:Incident light data not found."])

\* 'b'
DeleteBoth ==
    /\ host.script = SdOctAbs
    /\ Iteration("b", None,
           [Keep EXCEPT !.host = delete_incidence(delete_reference(host)),
                        !.printed = "Incident light data deleted."])

NextHost ==
    \/ SignalProcessing
    \/ OtherKey \/ DeleteReference \/ UpdateReference \/ MeasureBscan
    \/ UpdateIncidence \/ MeasureAbsorbance2d \/ DeleteIncidence
    \/ UpdateBoth \/ MeasureBoth \/ DeleteBoth \/ StageKey

SpecHost == InitHost /\ [][NextHost]_vars

DeletesReference ==
    \/ host.script = SdOct /\ host.key = "delete"
    \/ host.script = SdOctAbs /\ host.key \in {"t", "b"}
DeletesIncidence == host.script = SdOctAbs /\ host.key \in {"g", "b"}

\* C9 as stated: after a key that deletes the reference (the incidence) the
\* engine's cached reference (incidence) is None.
C9_DeleteClearsEngine ==
    /\ DeletesReference => ref = None
    /\ DeletesIncidence => inc = None

\* C9, amended: a deleting key clears the host's variable only; the engine's
\* cache is None exactly as long as it was never set and otherwise holds the
\* value of the latest explicit set call; while the host holds a reference
\* (an incidence) the engine's cache is that one; and an iteration that
\* starts with no host reference (incidence) computes no A-scan (absorbance).
C9_DeleteClearsHostOnly ==
    /\ [](/\ DeletesReference => host.ref = None
          /\ DeletesIncidence => host.inc = None
          /\ ref = (IF hist.set_ref = None THEN None ELSE Some(resample(hist.set_ref[1])))
          /\ inc = hist.set_inc
          /\ host.ref # None => ref = Some(resample(Window(host.ref[1])))
          /\ host.inc # None => inc = Some(PmaWindow(host.inc[1])))
    /\ [][op = "main" =>
            /\ host.ref = None => out'.result[1].ascan = None
            /\ host.inc = None => out'.result[1].absorbance = None]_vars

\* the reference was deleted and the engine still holds the old one
C9_Witness ==
    /\ DeletesReference
    /\ host.ref = None
    /\ ref # None
    /\ ref = Some(resample(hist.set_ref[1]))

\* an iteration that called generate_ascan, a key handler that called
\* generate_bscan
CallsGenerateAscan == op = "main" /\ host.ref # None
CallsGenerateBscan ==
    /\ op = "keys"
    /\ host'.key \in (IF host.script = SdOct THEN {"d"} ELSE {"e", "c"})
    /\ host.ref # None /\ host.stage_s_flag
    /\ host.script = SdOctAbs /\ host'.key = "c" => host.inc # None

\* C28: in the main loops, after every sequence of keys, a host reference
\* that is not None is cached in the engine as the resampling of its
\* calculation range; so every generate_ascan and generate_bscan call finds
\* a reference cached, never sets one itself and leaves the cache as it is.
C28_HostReferenceIsCached ==
    /\ [](/\ host.ref # None => ref = Some(resample(Window(host.ref[1])))
          /\ hist.first = None)
    /\ [][(CallsGenerateAscan \/ CallsGenerateBscan) =>
             (ref # None /\ ref' = ref /\ hist'.first = None)]_vars

\* a B-scan made by the 'd' key of sd-oct.py after a second 'enter'
C28_Witness ==
    /\ host.script = SdOct
    /\ host.key = "d"
    /\ host.ref # None
    /\ out.result[1].result_map # None
    /\ hist.set_ref = Some(Window(host.ref[1]))
    /\ ref = Some(resample(Peak(2)))

\* C22: when the sample stage was not found at start-up (stage_s_flag is
\* False), whatever key is pressed the main loop calls no method of the stage
\* object and goes on to its next iteration.
C22_StageDisabledKeepsRunning ==
    ~host.stage_s_flag =>
        /\ host.stage = <<>>
        /\ host.raised = ""

\* a stage key is pressed with the stage not found: the handler evaluates the
\* unbound name stage_s
C22_StageKeyRaises ==
    /\ ~host.stage_s_flag
    /\ host.key \in StageKeys
    /\ host.raised = "NameError"
    /\ host.stage = <<>>

-----------------------------------------------------------------------------
(* Automatic file names: data_handler.generate_filename and its callers *)

\* most entries the data directories hold together
MaxFiles == 3
\* largest number an entry made by someone else carries in its name
MaxIndex == 1

\* the directories, the dates (strftime('%y%m%d')) and the extensions used
Directories == {"data", "backup"}
Tags == {"261105", "261106"}
Extensions == {"csv", "png"}

\* '{}_{}.{}'.format(tag, i, extension)
basename_of(tag, i, extension) == tag \o "_" \o ToString(i) \o "." \o extension

\* a path is the sequence of its components: '{}/{}'.format(directory, name)
path_of(directory, name) == <<directory, name>>

\* os.path.basename(p)
basename(p) == p[Len(p)]

\* glob.glob('{}/*'.format(directory)): the paths of the entries of directory
glob(fs, directory) ==
    {e.path : e \in {f \in fs : Len(f.path) = 2 /\ f.path[1] = directory}}

\* os.path.isfile(p)
isfile(fs, p) == \E e \in fs : e.path = p /\ e.kind = "file"

\* a counter that never advances
free_index_never_advances(names, tag, extension, i) == i

\* while '{}_{}.{}'.format(tag,i,extension) in files: i+=1
RECURSIVE free_index(_, _, _, _)
free_index(names, tag, extension, i) ==
    IF basename_of(tag, i, extension) \in names
    THEN free_index(names, tag, extension, i + 1)
    ELSE i

\* generate_filename(extension, directory) when the clock reads the date tag
generate_filename(fs, tag, extension, directory) ==
    LET names == {basename(p) : p \in {g \in glob(fs, directory) : isfile(fs, g)}}
    IN  path_of(directory, basename_of(tag, free_index(names, tag, extension, 0), extension))

\* open(file_path, mode='w') followed by the writes: a regular file is
\* created or truncated; a directory cannot be opened for writing
open_w(fs, p, data) ==
    IF \E e \in fs : e.path = p /\ e.kind = "dir"
    THEN [raised |-> "IsADirectoryError", fs |-> fs]
    ELSE [raised |-> "",
          fs |-> {e \in fs : e.path /= p} \cup {[path |-> p, kind |-> "file", data |-> data]}]

InitFiles ==
    /\ op = "idle"
    /\ args = <<>>
    /\ out = NoOutcome
    /\ vol = Volume(1, 1, 1)
    /\ ref = None
    /\ inc = None
    /\ ref_fix = None
    /\ host = NoHost
    /\ engine = ""
    /\ axes = None
    /\ tasks = <<>>
    /\ files = {}
    /\ kb = NoKeyboard
    /\ hist = NoHistory

\* someone else puts a regular file or a directory into a data directory
CreateEntry ==
    /\ Idle
    /\ Cardinality(files) < MaxFiles
    /\ \E directory \in Directories, tag \in Tags, i \in 0..MaxIndex,
          extension \in Extensions, kind \in {"file", "dir"} :
          LET p == path_of(directory, basename_of(tag, i, extension))
          IN  /\ \A e \in files : e.path /= p
              /\ files' = files \cup {[path |-> p, kind |-> kind, data |-> "existing"]}
    /\ UNCHANGED <<op, args, out, vol, ref, inc, ref_fix, host, engine, kb, axes, tasks, hist>>

GenerateFilename ==
    /\ Idle
    /\ \E tag \in Tags, extension \in Extensions, directory \in Directories :
          Call("generate_filename",
               [extension |-> extension, directory |-> directory, tag |-> tag],
               Returned(Some(generate_filename(files, tag, extension, directory)), ""))
    /\ UNCHANGED <<vol, ref, inc, ref_fix, host, engine, files, kb, axes, tasks, hist>>

\* save_spectra: the file name is generated, the file opened and written
SaveSpectra ==
    /\ Idle
    /\ Cardinality(files) < MaxFiles
    /\ \E tag \in Tags, memo \in {"memo"} :
          \E p \in {generate_filename(files, tag, "csv", "data")} :
             \E w \in {open_w(files, p, memo)} :
                /\ files' = w.fs
                /\ op' = "save_spectra"
                /\ args' = [extension |-> "csv", directory |-> "data", tag |-> tag]
                /\ out' = IF w.raised /= "" THEN Raised(w.raised, "")
                          ELSE Returned(Some(p), "Saved the spectra to {} .")
    /\ UNCHANGED <<vol, ref, inc, ref_fix, host, engine, kb, axes, tasks, hist>>

NextFiles == CreateEntry \/ GenerateFilename \/ SaveSpectra \/ Discard

SpecFiles == InitFiles /\ [][NextFiles]_vars

\* the name a call returned, split as the format string joins it
ReturnedPath == out.result[1]
NamedIndex(i) ==
    ReturnedPath = path_of(args.directory, basename_of(args.tag, i, args.extension))

\* C21: generate_filename returns '<directory>/<yymmdd>_<i>.<extension>' with
\* i the smallest non-negative integer for which the directory holds no
\* regular file of that base name at the time of the call, so the name is
\* that of no existing regular file; and saving under a generated name
\* leaves every regular file that existed as it was.
C21_SmallestFreeName ==
    (op \in {"generate_filename", "save_spectra"} /\ out.raised = "") =>
        \E i \in 0..MaxFiles :
            /\ NamedIndex(i)
            /\ \A j \in 0..(i - 1) :
                  \E e \in files :
                     /\ e.kind = "file"
                     /\ e.path = path_of(args.directory,
                                         basename_of(args.tag, j, args.extension))
            /\ op = "generate_filename" => ~isfile(files, ReturnedPath)
C21_NoOverwrite ==
    [][\A e \in files : e.kind = "file" => e \in files']_vars
C21_GeneratedNameIsFree == []C21_SmallestFreeName /\ C21_NoOverwrite

\* a call that had to skip two existing files of the day, and a save made
\* when the first name of the day was taken
C21_Witness ==
    \/ /\ op = "generate_filename"
       /\ NamedIndex(2)
    \/ /\ op = "save_spectra"
       /\ out.raised = ""
       /\ NamedIndex(1)
       /\ \E e \in files : e.path = path_of("data", basename_of(args.tag, 0, "csv"))
                           /\ e.data = "existing"

-----------------------------------------------------------------------------
(* Key presses: on_key, the main loop's use of g_key and the beam profiler *)

\* most keys pressed in one run
MaxKeys == 3

\* the keys pressed: 'escape', 'alt' (read by both processes), 'd' (its
\* handler may open a blocking plot window) and a key with a short handler
Keys == {"escape", "alt", "d", "enter"}

\* pending: key events the window system holds until matplotlib's event loop
\* runs; q: the queue to the profiler; main, prof: where each process is;
\* pressed: all keys pressed so far
InitKeys ==
    /\ op = "idle"
    /\ args = <<>>
    /\ out = NoOutcome
    /\ vol = Volume(1, 1, 1)
    /\ ref = None
    /\ inc = None
    /\ ref_fix = None
    /\ host = NoHost
    /\ engine = ""
    /\ axes = None
    /\ tasks = <<>>
    /\ files = NoFiles
    /\ hist = NoHistory
    /\ kb = [g_key |-> "None", q |-> <<>>, pending |-> <<>>, pressed |-> <<>>,
             main |-> "while", prof |-> "running"]

NoEngineStep ==
    UNCHANGED <<op, args, out, vol, ref, inc, ref_fix, host, engine, files, axes, tasks, hist>>

\* on_key(event, q) for the events given, oldest first: g_key = event.key;
\* q.put(g_key)
RECURSIVE on_key(_, _)
on_key(k, events) ==
    IF events = <<>> THEN k
    ELSE on_key([k EXCEPT !.g_key = Head(events), !.q = Append(k.q, Head(events)),
                          !.pending = Tail(k.pending)],
                Tail(events))

\* the user presses a key in the window of the main figure
Press ==
    /\ Len(kb.pressed) < MaxKeys
    /\ kb.main # "joined"
    /\ \E key \in Keys :
          kb' = [kb EXCEPT !.pending = Append(@, key), !.pressed = Append(@, key)]
    /\ NoEngineStep

\* while g_key != 'escape':
MainWhile ==
    /\ kb.main = "while"
    /\ kb' = [kb EXCEPT !.main = IF kb.g_key # "escape" THEN "body" ELSE "join"]
    /\ NoEngineStep

\* the body of the loop up to `g_key = None`; the 'd' handler may end in
\* plt.show(), which blocks with the event loop running
MainBody ==
    /\ kb.main = "body"
    /\ \E next \in IF kb.g_key = "d" THEN {"show", "reset"} ELSE {"reset"} :
          kb' = [kb EXCEPT !.main = next]
    /\ NoEngineStep

\* a key event handled while the plot window of plt.show() is open
ShowDispatch ==
    /\ kb.main = "show"
    /\ kb.pending # <<>>
    /\ kb' = on_key(kb, <<Head(kb.pending)>>)
    /\ NoEngineStep

\* the plot window is closed: plt.show() returns
CloseWindow ==
    /\ kb.main = "show"
    /\ kb' = [kb EXCEPT !.main = "reset"]
    /\ NoEngineStep

\* g_key = None
MainReset ==
    /\ kb.main = "reset"
    /\ kb' = [kb EXCEPT !.g_key = "None", !.main = "pause"]
    /\ NoEngineStep

\* plt.pause(0.0001): the event loop handles the key events that wait
MainPause ==
    /\ kb.main = "pause"
    /\ kb' = [on_key(kb, kb.pending) EXCEPT !.main = "while"]
    /\ NoEngineStep

\* proc1.join() returns once the profiler process has ended
MainJoin ==
    /\ kb.main = "join"
    /\ kb.prof = "exited"
    /\ kb' = [kb EXCEPT !.main = "joined"]
    /\ NoEngineStep

\* profile_beam: one q.get(block=False) that found a key; 'escape' ends the
\* loop, 'alt' saves an image, any other key is dropped
ProfileBeam ==
    /\ kb.prof = "running"
    /\ kb.q # <<>>
    /\ kb' = [kb EXCEPT !.q = Tail(@),
                        !.prof = IF Head(kb.q) = "escape" THEN "exited" ELSE "running"]
    /\ NoEngineStep

NextKeys ==
    \/ Press \/ MainWhile \/ MainBody \/ ShowDispatch \/ CloseWindow
    \/ MainReset \/ MainPause \/ MainJoin \/ ProfileBeam

SpecKeys == InitKeys /\ [][NextKeys]_vars

\* both processes keep running, the event loop handles the events it holds
\* and an open plot window is closed at some time
SpecKeysFair ==
    /\ SpecKeys
    /\ WF_vars(MainWhile \/ MainBody \/ MainReset \/ MainPause \/ MainJoin)
    /\ WF_vars(ShowDispatch)
    /\ WF_vars(CloseWindow)
    /\ WF_vars(ProfileBeam)

EscapePressed == \E i \in 1..Len(kb.pressed) : kb.pressed[i] = "escape"

\* C29: whenever the escape key has been pressed, the main loop eventually
\* leaves its while loop, the beam profiler exits and proc1.join() returns,
\* whatever other keys are pressed before g_key is next tested or while a
\* plot window blocks.
C29_EscapeEndsBoth ==
    EscapePressed ~> (kb.main = "joined" /\ kb.prof = "exited")

\* the part that holds: every key goes to the profiler's queue in the order
\* pressed, and after an escape the profiler exits
C29_EscapeEndsProfiler ==
    EscapePressed ~> (kb.prof = "exited")

\* escape was pressed and handled by on_key, yet the main loop tested g_key
\* afterwards and went on
C29_EscapeOverwritten ==
    /\ EscapePressed
    /\ kb.pending = <<>>
    /\ kb.main = "body"
    /\ kb.prof = "exited"

=============================================================================
